---- MODULE Spec2Model ----
(***************************************************************************)
(* State-machine model of the legal-risk-analysis backend                  *)
(* (backend/routers/*.py, backend/models.py, backend/services/*.py).       *)
(*                                                                         *)
(* The state is the SQLite database (tables documents, analyses,           *)
(* analysis_documents, risks), the upload and output directories, and the  *)
(* background tasks scheduled by create_analysis.  Every HTTP handler is   *)
(* one action (handlers are `async def` without an await between their     *)
(* queries, so they run to completion on the event loop); the background   *)
(* task run_analysis_task runs on a worker thread and is modelled one      *)
(* commit at a time.  `resp` is the response of the handler that has just  *)
(* run; a step of a background task returns nothing and clears it.         *)
(***************************************************************************)
EXTENDS Integers, Sequences, FiniteSets, TLC

\* ------------------------------------------------------------------ bounds

\* Number of distinct values uuid4()[:8] is drawn from for a doc_id.
MaxUuid == 2
\* Largest rowid of table documents in Spec (so at most that many stored
\* documents).
MaxDocuments == 1
\* Largest rowid of table documents in SpecDocs.
MaxStored == 2
\* Analyses created over a run of Spec (each schedules one background task).
MaxCreated == 2
\* Background tasks scheduled and not yet finished at the same time.
MaxTasks == 1
\* Largest rowid of table risks.
MaxRisks == 6
\* Longest document_ids list given to create_analysis.
MaxDocIdsLen == 2
\* Analyses created over a run of SpecList.
MaxListed == 3
\* Largest skip / limit tried on list endpoints.
MaxPage == 3

\* Analyses stored when the dashboard is asked for its statistics.
MaxRecentRows == 6

\* Pages of one document of the agent's data room.
MaxRoomPages == 2
\* Largest page number in the data room and in a request.
MaxPageNum == 3
\* Longest page_nums list given to DataRoom.get_document_pages.
MaxRequested == 2

\* Longest comma-separated page_nums query of the documents router.
MaxTokens == 2
\* Documents in one indexing request, pages the pipeline extracts from one
\* document, and indexing jobs running at a time.
MaxIndexDocs == 2
MaxIndexPages == 2
MaxIndexTasks == 1
\* Documents handed to the analysis service in one call.
MaxServiceDocs == 4
\* Analyses created, and tasks unfinished at a time, when the tasks of two
\* analyses run side by side.
MaxRaceCreated == 2
MaxRaceTasks == 2

\* ------------------------------------------------------------- value sets

Uuids == 1..MaxUuid

\* f"DOC{str(uuid.uuid4())[:8].upper()}"
DocId(u) == <<"DOC", u>>

\* f"ANA{str(uuid.uuid4())[:8].upper()}"
AnalysisId(u) == <<"ANA", u>>

DocIds == {DocId(u) : u \in Uuids}

\* The analysis ids a client asks for: those create_analysis can have
\* generated, each unknown until then and again once deleted.
AnalysisIdsUpTo(n) == {AnalysisId(u) : u \in 1..n}
AnalysisIds == AnalysisIdsUpTo(MaxCreated)

\* SQL NULL / Python None
NULL == "NULL"

\* An optional list argument: None, or the list.
None == [none |-> TRUE]
Some(list) == [none |-> FALSE, list |-> list]

\* Bytes of an uploaded file.
Contents == {"bytes1", "bytes2", "bytes3"}

\* The summary form field: "" (the default) or a text.
SummaryInputs == {"", "given summary"}

AnalysisStatus == {"pending", "running", "completed", "failed"}
RiskSeverity == {"Critical", "High", "Medium", "Low"}
RiskLikelihood == {"Very Likely", "Likely", "Possible", "Unlikely"}
RiskCategory == {"Contractual", "Regulatory", "Litigation", "IP", "Operational"}

\* ------------------------------------------------------------------ state

VARIABLES
    documents,   \* table documents: set of rows
    files,       \* upload directory: file path -> content, NULL when absent
    analyses,    \* table analyses: set of rows
    assocs,      \* table analysis_documents: set of rows
    risks,       \* table risks: set of rows
    outputs,     \* output directory: set of file names
    tasks,       \* unfinished background tasks, in the order they were scheduled
    now,         \* last value datetime.utcnow() returned
    created,     \* number of analyses created so far
    resp,        \* response of the handler that has just run, or NoResp
    indexing_jobs, \* routers/indexing.py indexing_jobs: the job records
    data_room    \* legal-risk-agent DataRoom.documents: doc_id -> document

vars == <<documents, files, analyses, assocs, risks, outputs, tasks, now, created, resp,
          indexing_jobs, data_room>>

\* What the documents, analyses and dashboard routers never touch.
elsewhere == <<indexing_jobs, data_room>>

db == <<documents, files, analyses, assocs, risks, outputs>>

\* --------------------------------------------------------------- helpers

Max(S) == CHOOSE x \in S : \A y \in S : y <= x

Min(a, b) == IF a <= b THEN a ELSE b

\* SQLite INTEGER PRIMARY KEY without AUTOINCREMENT: the new rowid is one more
\* than the largest rowid in the table (1 for an empty table).
NextRowId(table) == IF table = {} THEN 1 ELSE Max({r.id : r \in table}) + 1

Range(s) == {s[i] : i \in 1..Len(s)}

\* db.query(DocumentModel).filter(DocumentModel.doc_id == doc_id): the rows
\* found (.first() is None when the set is empty, else its only row, doc_id
\* being UNIQUE).
DocumentsByDocId(doc_id) == {d \in documents : d.doc_id = doc_id}

\* db.query(AnalysisModel).filter(AnalysisModel.analysis_id == analysis_id)
AnalysesByAnalysisId(analysis_id) == {a \in analyses : a.analysis_id = analysis_id}

\* .first() of a query that found rows
First(rows) == CHOOSE r \in rows : TRUE

\* No handler has just returned.
NoResp == [op |-> "none"]

\* ------------------------------------------------------------------- init

Init ==
    /\ documents = {}
    /\ files = [p \in DocIds |-> NULL]
    /\ analyses = {}
    /\ assocs = {}
    /\ risks = {}
    /\ outputs = {}
    /\ tasks = <<>>
    /\ now = 0
    /\ created = 0
    /\ resp = NoResp
    /\ indexing_jobs = {}
    /\ data_room = <<>>

\* ------------------------------------------------------ documents router

\* The files uploaded: "bytes1" is a text file, "bytes2" a PDF of two pages,
\* "bytes3" a PDF of two pages of which PyPDF2 fails to extract the text
\* (len(reader.pages) has been read by then).
PdfContents == {"bytes2", "bytes3"}

\* page_count of lines 45-52.
PageCount(content) == IF content \in PdfContents THEN 2 ELSE 1

\* pages_data of lines 46-65.
PagesData(content) ==
    IF content = "bytes2"
    THEN [i \in 1..2 |-> [page_num |-> i, summdesc |-> <<"Page", i>>, has_image |-> FALSE]]
    ELSE IF content = "bytes3"
    THEN <<[page_num |-> 1, summdesc |-> "Document page", has_image |-> FALSE]>>
    ELSE <<[page_num |-> 1, summdesc |-> "Document content", has_image |-> FALSE]>>

\* Summary stored by upload_document: the form field, or the generated
\* f"{file.filename} - {file_type} document with {page_count} pages".
StoredSummary(summary) == IF summary = "" THEN "auto summary" ELSE summary

\* A faulty upload_document for C5: doc_id is not UNIQUE, the row is inserted
\* whether or not the doc_id is already stored.
UploadDocumentNotUnique(uuids, contents, summaries, max_rows) ==
    /\ \E u \in uuids, content \in contents, summary \in summaries :
        LET doc_id == DocId(u)
            row == [id |-> NextRowId(documents), doc_id |-> doc_id,
                    file_path |-> doc_id, summary |-> StoredSummary(summary),
                    page_count |-> PageCount(content),
                    pages_data |-> PagesData(content)]
        IN  /\ files' = [files EXCEPT ![doc_id] = content]
            /\ row.id <= max_rows
            /\ documents' = documents \cup {row}
            /\ resp' = [op |-> "upload_document", status |-> 200, doc_id |-> doc_id]
    /\ UNCHANGED <<analyses, assocs, risks, outputs, tasks, now, created, elsewhere>>

\* POST /api/documents/upload.  The file is written to UPLOAD_DIR/<doc_id><ext>
\* before the row is inserted; doc_id is UNIQUE, so the commit raises
\* IntegrityError (HTTP 500) when the generated doc_id is already stored.
\* uuids: the values uuid4() can return; contents, summaries: the files and
\* summary fields uploaded; max_rows: the bound on the rowid.
UploadDocument(uuids, contents, summaries, max_rows) ==
    /\ \E u \in uuids, content \in contents, summary \in summaries :
        LET doc_id == DocId(u)
            found == DocumentsByDocId(doc_id)
            row == [id |-> NextRowId(documents), doc_id |-> doc_id,
                    file_path |-> doc_id, summary |-> StoredSummary(summary),
                    page_count |-> PageCount(content),
                    pages_data |-> PagesData(content)]
        IN  /\ files' = [files EXCEPT ![doc_id] = content]
            /\ IF found # {}
               THEN /\ documents' = documents
                    /\ resp' = [op |-> "upload_document", status |-> 500]
               ELSE /\ row.id <= max_rows
                    /\ documents' = documents \cup {row}
                    /\ resp' = [op |-> "upload_document", status |-> 200,
                                doc_id |-> doc_id]
    /\ UNCHANGED <<analyses, assocs, risks, outputs, tasks, now, created, elsewhere>>

\* A faulty delete_document for C6: the file is removed, the row is not.
DeleteDocumentKeepsRow ==
    /\ \E doc_id \in DocIds :
        LET found == DocumentsByDocId(doc_id)
            document == First(found)
        IN  IF found = {}
            THEN /\ resp' = [op |-> "delete_document", status |-> 404,
                             doc_id |-> doc_id]
                 /\ UNCHANGED <<documents, files, assocs>>
            ELSE /\ files' = [files EXCEPT ![document.file_path] = NULL]
                 /\ resp' = [op |-> "delete_document", status |-> 200,
                             doc_id |-> doc_id]
                 /\ UNCHANGED <<documents, assocs>>
    /\ UNCHANGED <<analyses, risks, outputs, tasks, now, created, elsewhere>>

\* DELETE /api/documents/{doc_id}.  db.delete(document) also removes the rows
\* of the secondary table analysis_documents that refer to the document
\* (relationship DocumentModel.analyses, secondary="analysis_documents").
DeleteDocument ==
    /\ \E doc_id \in DocIds :
        LET found == DocumentsByDocId(doc_id)
            document == First(found)
        IN  IF found = {}
            THEN /\ resp' = [op |-> "delete_document", status |-> 404,
                             doc_id |-> doc_id]
                 /\ UNCHANGED <<documents, files, assocs>>
            ELSE /\ files' = [files EXCEPT ![document.file_path] = NULL]
                 /\ documents' = documents \ {document}
                 /\ assocs' = {x \in assocs : x.document_id # document.id}
                 /\ resp' = [op |-> "delete_document", status |-> 200,
                             doc_id |-> doc_id]
    /\ UNCHANGED <<analyses, risks, outputs, tasks, now, created, elsewhere>>

\* The summary form fields of update_document_summary (Form(...): required).
NewSummaries == {"given summary", "updated summary"}

\* A faulty update_document_summary for C13: the summary of every document is
\* set.
UpdateEverySummary ==
    /\ \E doc_id \in DocIds, summary \in NewSummaries :
        LET found == DocumentsByDocId(doc_id)
        IN  IF found = {}
            THEN /\ resp' = [op |-> "update_document_summary", status |-> 404,
                             doc_id |-> doc_id, summary |-> summary]
                 /\ UNCHANGED documents
            ELSE /\ documents' = {[d EXCEPT !.summary = summary] : d \in documents}
                 /\ resp' = [op |-> "update_document_summary", status |-> 200,
                             doc_id |-> doc_id, summary |-> summary,
                             document |-> [First(found) EXCEPT !.summary = summary]]
    /\ UNCHANGED <<files, analyses, assocs, risks, outputs, tasks, now, created, elsewhere>>

\* PUT /api/documents/{doc_id}/summary
UpdateDocumentSummary ==
    /\ \E doc_id \in DocIds, summary \in NewSummaries :
        LET found == DocumentsByDocId(doc_id)
            document == First(found)
            updated == [document EXCEPT !.summary = summary]
        IN  IF found = {}
            THEN /\ resp' = [op |-> "update_document_summary", status |-> 404,
                             doc_id |-> doc_id, summary |-> summary]
                 /\ UNCHANGED documents
            ELSE /\ documents' = (documents \ {document}) \cup {updated}
                 /\ resp' = [op |-> "update_document_summary", status |-> 200,
                             doc_id |-> doc_id, summary |-> summary,
                             document |-> updated]
    /\ UNCHANGED <<files, analyses, assocs, risks, outputs, tasks, now, created, elsewhere>>

\* ------------------------------------------------------- analyses router

\* The document_ids lists of AnalysisCreate tried: the lists of document ids,
\* stored or not, repeated or not, in nondecreasing order (the handler and the
\* task use the list only as a set, in `.in_(...)`, and for its length).
DocIdLists ==
    LET lists == UNION {[1..n -> Uuids] : n \in 0..MaxDocIdsLen}
        sorted(l) == \A i \in 1..Len(l) - 1 : l[i] <= l[i + 1]
    IN  {[i \in 1..Len(l) |-> DocId(l[i])] : l \in {x \in lists : sorted(x)}}

\* A faulty document query for C1: the filter on doc_id is left out.
DocumentsInUnfiltered(document_ids) == documents

\* db.query(DocumentModel).filter(DocumentModel.doc_id.in_(document_ids)).all()
DocumentsIn(document_ids) == {d \in documents : d.doc_id \in Range(document_ids)}

\* AnalysisModel(analysis_id=..., status=PENDING) with the column defaults of
\* models.py: progress 0, created_at utcnow(), every other column NULL
\* (<<>> for the columns that hold a dict or a path when set).
NewAnalysis(id, analysis_id, created_at) ==
    [id |-> id, analysis_id |-> analysis_id, status |-> "pending",
     progress |-> 0, current_step |-> NULL, created_at |-> created_at,
     started_at |-> NULL, completed_at |-> NULL, error_message |-> NULL,
     result_data |-> <<>>, report_path |-> <<>>, dashboard_path |-> <<>>]

\* The task create_analysis hands to background_tasks.add_task.  committed is
\* the history of the run: the progress values of its commits so far.
NewTask(analysis_id, document_ids) ==
    [analysis_id |-> analysis_id, document_ids |-> document_ids,
     pc |-> "start", row |-> 0, docs |-> {}, docs_data |-> <<>>,
     risks_data |-> <<>>, committed |-> <<>>]

\* POST /api/analyses/.  404 when the number of documents found differs from
\* the number of ids given; analysis_id is UNIQUE, so the first commit raises
\* IntegrityError (HTTP 500) when the generated id is already stored.
\* uuids: the values uuid4() can return; ticks: by how much the clock has
\* advanced since the last analysis was created; max_created, max_tasks: the
\* bounds on the analyses created and on the unfinished tasks.
CreateAnalysis(uuids, ticks, max_created, max_tasks) ==
    /\ \E document_ids \in DocIdLists, u \in uuids, tick \in ticks :
        LET docs == DocumentsIn(document_ids)
            analysis_id == AnalysisId(u)
            id == NextRowId(analyses)
            created_at == now + tick
        IN  IF Cardinality(docs) # Len(document_ids)
            THEN /\ resp' = [op |-> "create_analysis", status |-> 404,
                             detail |-> "Documents not found",
                             missing |-> Range(document_ids) \ {d.doc_id : d \in docs},
                             document_ids |-> document_ids]
                 /\ UNCHANGED <<analyses, assocs, tasks, now, created>>
            ELSE IF AnalysesByAnalysisId(analysis_id) # {}
            THEN /\ resp' = [op |-> "create_analysis", status |-> 500,
                             document_ids |-> document_ids]
                 /\ UNCHANGED <<analyses, assocs, tasks, now, created>>
            ELSE /\ created < max_created
                 /\ Len(tasks) < max_tasks
                 /\ created' = created + 1
                 /\ now' = created_at
                 /\ analyses' = analyses \cup {NewAnalysis(id, analysis_id, created_at)}
                 /\ assocs' = assocs \cup
                        {[analysis_id |-> id, document_id |-> d.id] : d \in docs}
                 /\ tasks' = Append(tasks, NewTask(analysis_id, document_ids))
                 /\ resp' = [op |-> "create_analysis", status |-> 200,
                             id |-> id, analysis_id |-> analysis_id,
                             analysis_status |-> "pending", progress |-> 0,
                             document_count |-> Cardinality(docs),
                             risk_count |-> 0,
                             document_ids |-> document_ids]
    /\ UNCHANGED <<documents, files, risks, outputs, elsewhere>>

\* A faulty delete_analysis for C2: the risks of the analysis are not deleted.
DeleteAnalysisKeepsRisks(analysis_ids) ==
    /\ \E analysis_id \in analysis_ids :
        LET found == AnalysesByAnalysisId(analysis_id)
            analysis == First(found)
        IN  IF found = {}
            THEN /\ resp' = [op |-> "delete_analysis", status |-> 404,
                             analysis_id |-> analysis_id]
                 /\ UNCHANGED <<analyses, assocs, risks>>
            ELSE /\ assocs' = {x \in assocs : x.analysis_id # analysis.id}
                 /\ analyses' = analyses \ {analysis}
                 /\ resp' = [op |-> "delete_analysis", status |-> 200,
                             analysis_id |-> analysis_id, id |-> analysis.id]
                 /\ UNCHANGED risks
    /\ UNCHANGED <<documents, files, outputs, tasks, now, created, elsewhere>>

\* DELETE /api/analyses/{analysis_id}, for the ids of analysis_ids.
DeleteAnalysis(analysis_ids) ==
    /\ \E analysis_id \in analysis_ids :
        LET found == AnalysesByAnalysisId(analysis_id)
            analysis == First(found)
        IN  IF found = {}
            THEN /\ resp' = [op |-> "delete_analysis", status |-> 404,
                             analysis_id |-> analysis_id]
                 /\ UNCHANGED <<analyses, assocs, risks>>
            ELSE /\ risks' = {r \in risks : r.analysis_id # analysis.id}
                 /\ assocs' = {x \in assocs : x.analysis_id # analysis.id}
                 /\ analyses' = analyses \ {analysis}
                 /\ resp' = [op |-> "delete_analysis", status |-> 200,
                             analysis_id |-> analysis_id, id |-> analysis.id]
    /\ UNCHANGED <<documents, files, outputs, tasks, now, created, elsewhere>>

\* ------------------------------------------------------ analysis service

\* Key absent from a dict of the analysis result.
MISSING == "MISSING"

\* The decimal digits of a natural number.
RECURSIVE Digits(_)
Digits(n) == IF n < 10 THEN <<n>> ELSE Append(Digits(n \div 10), n % 10)

\* f"{n:03d}": the digits, padded with zeros to three.
Format03d(n) ==
    LET d == Digits(n)
    IN  IF Len(d) >= 3 THEN d ELSE [i \in 1..(3 - Len(d)) |-> 0] \o d

\* f"RISK_{risk_counter:03d}"
RiskId(risk_counter) == <<"RISK_", Format03d(risk_counter)>>

\* The three sample risks _generate_mock_analysis makes for one document;
\* risk_counter is the number of the first of them.
SampleRisks(doc_id, risk_counter) ==
    << [risk_id |-> RiskId(risk_counter), category |-> "Contractual",
        severity |-> "High", likelihood |-> "Possible", evidence |-> doc_id],
       [risk_id |-> RiskId(risk_counter + 1), category |-> "Regulatory",
        severity |-> "Medium", likelihood |-> "Likely", evidence |-> doc_id],
       [risk_id |-> RiskId(risk_counter + 2), category |-> "Operational",
        severity |-> "Medium", likelihood |-> "Possible", evidence |-> doc_id] >>

\* A faulty _generate_mock_analysis for C20: risk_counter is not advanced.
RECURSIVE MockRisksRestarting(_, _)
MockRisksRestarting(docs_data, risk_counter) ==
    IF docs_data = <<>> THEN <<>>
    ELSE SampleRisks(Head(docs_data), risk_counter)
         \o MockRisksRestarting(Tail(docs_data), risk_counter)

\* LegalRiskAnalysisService._generate_mock_analysis: the "risks" list.
RECURSIVE MockRisks(_, _)
MockRisks(docs_data, risk_counter) ==
    IF docs_data = <<>> THEN <<>>
    ELSE SampleRisks(Head(docs_data), risk_counter)
         \o MockRisks(Tail(docs_data), risk_counter + 3)

\* A "risks" list of a parsed model response: a well-formed risk followed by
\* one whose category is no RiskCategory and whose severity and likelihood are
\* absent.
LLMRisks ==
    { << [risk_id |-> <<"RISK", 1>>, category |-> "Litigation",
          severity |-> "Critical", likelihood |-> "Unlikely", evidence |-> MISSING],
         [risk_id |-> MISSING, category |-> "Commercial",
          severity |-> MISSING, likelihood |-> MISSING, evidence |-> MISSING] >> }

\* LegalRiskAnalysisService.analyze_documents: the "risks" lists it can return
\* for docs_data (the mock analysis when there is no API key, the call raises
\* or the response holds no JSON object; else what the model answered).
AnalyzeDocuments(docs_data) == {MockRisks(docs_data, 1)} \cup LLMRisks

\* The lists of documents handed to the service, each document given by its
\* doc_id (every dict has the keys the service reads).
ServiceDocuments == UNION {[1..n -> DocIds] : n \in 0..MaxServiceDocs}

\* LegalRiskAnalysisService._generate_mock_analysis: the dict returned; the
\* summary is given by the two numbers its text states.
GenerateMockAnalysis(docs_data) ==
    LET risk_list == MockRisks(docs_data, 1)
    IN  [analysis_summary |-> <<Len(docs_data), "documents", Len(risk_list), "risks">>,
         risks |-> risk_list]

\* os.environ.get("ANTHROPIC_API_KEY"): unset, empty, or a key.
EnvApiKeys == {NULL, "", "sk-ant-one"}

\* JSON values: an object (a dict) and an array.
JsonObject(dict) == [type |-> "object", value |-> dict]
JsonArray == [type |-> "array"]

\* The dict a model response holds.
ModelAnswer ==
    JsonObject([analysis_summary |-> "summary of the model",
                risks |-> First(LLMRisks)])

\* The texts of a model response, each described by what the code computes
\* from it: loads is json.loads(response_text) (<<>> for JSONDecodeError),
\* braces is re.search(r'\{[\s\S]*\}', response_text) (<<>> for no match) and,
\* for a match, json.loads of the match.
ResponseTexts ==
    { [text |-> "{...}",            loads |-> <<ModelAnswer>>, braces |-> << <<ModelAnswer>> >>],
      [text |-> "Here it is: {...}", loads |-> <<>>,            braces |-> << <<ModelAnswer>> >>],
      [text |-> "I cannot help.",    loads |-> <<>>,            braces |-> <<>>],
      [text |-> "{ not json }",      loads |-> <<>>,            braces |-> << <<>> >>],
      [text |-> "[]",                loads |-> <<JsonArray>>,   braces |-> <<>>] }

\* What client.messages.create does: it raises, or returns a text.
ApiOutcomes ==
    {[raises |-> TRUE]} \cup {[raises |-> FALSE, response |-> t] : t \in ResponseTexts}

\* LegalRiskAnalysisService.analyze_documents (lines 108-157): whether the
\* API was called, and the value returned (it never raises).
AnalyzeDocumentsResult(docs_data, api_key, outcome) ==
    LET mock(called) == [api_called |-> called,
                         value |-> JsonObject(GenerateMockAnalysis(docs_data))]
    IN  IF api_key \in {NULL, ""} THEN mock(FALSE)
        ELSE IF outcome.raises THEN mock(TRUE)
        ELSE IF outcome.response.loads # <<>>
             THEN [api_called |-> TRUE, value |-> outcome.response.loads[1]]
        ELSE IF outcome.response.braces = <<>> THEN mock(TRUE)
        ELSE IF outcome.response.braces[1] = <<>> THEN mock(TRUE)
        ELSE [api_called |-> TRUE, value |-> outcome.response.braces[1][1]]

\* A call of analyze_documents.
AnalyzeDocumentsCall ==
    /\ \E docs \in ServiceDocuments, api_key \in EnvApiKeys, outcome \in ApiOutcomes :
          resp' = [op |-> "analyze_documents", documents |-> docs,
                   api_key |-> api_key, outcome |-> outcome,
                   result |-> AnalyzeDocumentsResult(docs, api_key, outcome)]
    /\ UNCHANGED <<documents, files, analyses, assocs, risks, outputs, tasks, now, created, elsewhere>>

\* A call of _generate_mock_analysis.
GenerateMockAnalysisCall ==
    /\ \E docs \in ServiceDocuments :
          resp' = [op |-> "_generate_mock_analysis", documents |-> docs,
                   result |-> GenerateMockAnalysis(docs)]
    /\ UNCHANGED <<documents, files, analyses, assocs, risks, outputs, tasks, now, created, elsewhere>>

\* ----------------------------------------------------- run_analysis_task

\* dict.get(key, default)
Get(value, default) == IF value = MISSING THEN default ELSE value

\* severity_map.get(risk_data.get("severity", "Medium"), RiskSeverity.MEDIUM)
MapSeverity(value) ==
    LET v == Get(value, "Medium") IN IF v \in RiskSeverity THEN v ELSE "Medium"

\* likelihood_map.get(risk_data.get("likelihood", "Possible"), RiskLikelihood.POSSIBLE)
MapLikelihood(value) ==
    LET v == Get(value, "Possible") IN IF v \in RiskLikelihood THEN v ELSE "Possible"

\* category_map.get(risk_data.get("category", "Operational"), RiskCategory.OPERATIONAL)
MapCategory(value) ==
    LET v == Get(value, "Operational") IN IF v \in RiskCategory THEN v ELSE "Operational"

\* RiskModel(...) for one entry of risks_data, stored under rowid id.
RiskRow(id, analysis_row, risk_data) ==
    [id |-> id,
     risk_id |-> Get(risk_data.risk_id, <<"RISK", "uuid">>),
     analysis_id |-> analysis_row,
     category |-> MapCategory(risk_data.category),
     severity |-> MapSeverity(risk_data.severity),
     likelihood |-> MapLikelihood(risk_data.likelihood)]

\* The rows db.commit() inserts for risks_data, with consecutive rowids.
RiskRows(analysis_row, risks_data) ==
    LET first == NextRowId(risks)
    IN  {RiskRow(first + i - 1, analysis_row, risks_data[i]) : i \in 1..Len(risks_data)}

\* len([r for r in risks_data if r.get(key) == value])
CountWhere(risks_data, key, value) ==
    Cardinality({i \in 1..Len(risks_data) : risks_data[i][key] = value})

\* result_data of lines 192-209.
ResultData(document_ids, risks_data) ==
    [documents_analyzed |-> document_ids,
     total_risks |-> Len(risks_data),
     by_severity |-> [s \in RiskSeverity |-> CountWhere(risks_data, "severity", s)],
     by_category |-> [c \in RiskCategory |-> CountWhere(risks_data, "category", c)]]

\* The analysis row the task's ORM object stands for: the row whose primary
\* key is the one loaded at line 43.
TaskRow(t) == {a \in analyses : a.id = t.row}

\* The sequence without its i-th element (the task has returned).
RemoveAt(s, i) == [j \in 1..Len(s) - 1 |-> IF j < i THEN s[j] ELSE s[j + 1]]

\* The analyses table after `analysis.<field> = ...; db.commit()` for the
\* fields of `changes` on the task's row.
Committed(t, changes) ==
    {IF a.id = t.row
     THEN [f \in DOMAIN a |-> IF f \in DOMAIN changes THEN changes[f] ELSE a[f]]
     ELSE a : a \in analyses}

\* A faulty except branch for C24: the task ends without marking the analysis.
FailsUnmarked(i) ==
    /\ analyses' = analyses
    /\ tasks' = RemoveAt(tasks, i)

\* The except branch (lines 221-230): the analysis named analysis_id, if there
\* is one, becomes failed with the error message; the task ends.
Fails(i) ==
    /\ analyses' = {IF a.analysis_id = tasks[i].analysis_id
                    THEN [a EXCEPT !.status = "failed", !.error_message = "error"]
                    ELSE a : a \in analyses}
    /\ tasks' = RemoveAt(tasks, i)

\* A commit of the task's row that only reports progress; the UPDATE matches
\* no row when the analysis was deleted (StaleDataError).
Progress(i, step, progress, pc) ==
    IF TaskRow(tasks[i]) = {}
    THEN Fails(i)
    ELSE /\ analyses' = Committed(tasks[i], [current_step |-> step, progress |-> progress])
         /\ tasks' = [tasks EXCEPT ![i].pc = pc,
                                   ![i].committed = Append(@, progress)]

\* Lines 42-52: load the analysis, return if there is none, else mark it running.
TaskStart ==
    /\ \E i \in 1..Len(tasks) :
        LET t == tasks[i]
            found == AnalysesByAnalysisId(t.analysis_id)
            started == [t EXCEPT !.row = First(found).id, !.pc = "load",
                                 !.committed = Append(@, 5)]
        IN  /\ t.pc = "start"
            /\ IF found = {}
               THEN /\ tasks' = RemoveAt(tasks, i)
                    /\ UNCHANGED analyses
               ELSE /\ analyses' = Committed(started,
                          [status |-> "running", started_at |-> "set",
                           current_step |-> "Initializing analysis...",
                           progress |-> 5])
                    /\ tasks' = [tasks EXCEPT ![i] = started]
    /\ resp' = NoResp
    /\ UNCHANGED <<documents, files, assocs, risks, outputs, now, created, elsewhere>>

\* Lines 54-63: query the documents, report "Loading documents...".
TaskLoadDocuments ==
    /\ \E i \in 1..Len(tasks) :
        /\ tasks[i].pc = "load"
        /\ IF TaskRow(tasks[i]) = {}
           THEN Fails(i)
           ELSE /\ analyses' = Committed(tasks[i],
                      [current_step |-> "Loading documents...", progress |-> 10])
                /\ tasks' = [tasks EXCEPT
                      ![i].docs = {d.id : d \in DocumentsIn(tasks[i].document_ids)},
                      ![i].committed = Append(@, 10),
                      ![i].pc = "prepare"]
    /\ resp' = NoResp
    /\ UNCHANGED <<documents, files, assocs, risks, outputs, now, created, elsewhere>>

\* The doc_id values of the rows with the given rowids, in rowid order.
RECURSIVE DocsData(_)
DocsData(ids) ==
    IF ids = {} THEN <<>>
    ELSE LET least == CHOOSE x \in ids : \A y \in ids : x <= y
             row == CHOOSE d \in documents : d.id = least
         IN  <<row.doc_id>> \o DocsData(ids \ {least})

\* Lines 66-80: read the documents loaded before the commit (each is
\* refreshed by primary key; ObjectDeletedError when its row is gone), report
\* "Analyzing documents with AI...".
TaskPrepare ==
    /\ \E i \in 1..Len(tasks) :
        /\ tasks[i].pc = "prepare"
        /\ IF \/ TaskRow(tasks[i]) = {}
              \/ \E id \in tasks[i].docs : \A d \in documents : d.id # id
           THEN Fails(i)
           ELSE /\ analyses' = Committed(tasks[i],
                      [current_step |-> "Analyzing documents with AI...", progress |-> 20])
                /\ tasks' = [tasks EXCEPT
                      ![i].docs_data = DocsData(tasks[i].docs),
                      ![i].committed = Append(@, 20),
                      ![i].pc = "phase1"]
    /\ resp' = NoResp
    /\ UNCHANGED <<documents, files, assocs, risks, outputs, now, created, elsewhere>>

\* A faulty list of phases for C14: the last phase is left out.
PhasesButLast ==
    [phase1 |-> <<"Analyzing contractual risks...", 30, "phase2">>,
     phase2 |-> <<"Analyzing regulatory compliance...", 45, "phase3">>,
     phase3 |-> <<"Analyzing litigation exposure...", 55, "phase4">>,
     phase4 |-> <<"Analyzing IP concerns...", 65, "analyze">>]

\* phases (lines 86-92): step text, progress, and the task's next position.
Phases ==
    [phase1 |-> <<"Analyzing contractual risks...", 30, "phase2">>,
     phase2 |-> <<"Analyzing regulatory compliance...", 45, "phase3">>,
     phase3 |-> <<"Analyzing litigation exposure...", 55, "phase4">>,
     phase4 |-> <<"Analyzing IP concerns...", 65, "phase5">>,
     phase5 |-> <<"Analyzing operational risks...", 75, "analyze">>]

\* Lines 94-98: one round of the loop over phases.
TaskPhase ==
    /\ \E i \in 1..Len(tasks) :
        /\ tasks[i].pc \in DOMAIN Phases
        /\ LET ph == Phases[tasks[i].pc]
           IN  Progress(i, ph[1], ph[2], ph[3])
    /\ resp' = NoResp
    /\ UNCHANGED <<documents, files, assocs, risks, outputs, now, created, elsewhere>>

\* Lines 100-105: analyze_documents, then report "Processing analysis results...".
TaskAnalyze ==
    /\ \E i \in 1..Len(tasks) :
        /\ tasks[i].pc = "analyze"
        /\ \E risks_data \in AnalyzeDocuments(tasks[i].docs_data) :
            IF TaskRow(tasks[i]) = {}
            THEN Fails(i)
            ELSE /\ analyses' = Committed(tasks[i],
                       [current_step |-> "Processing analysis results...", progress |-> 80])
                 /\ tasks' = [tasks EXCEPT
                       ![i].risks_data = risks_data,
                       ![i].committed = Append(@, 80),
                       ![i].pc = IF risks_data = <<>> THEN "step85" ELSE "risks"]
    /\ resp' = NoResp
    /\ UNCHANGED <<documents, files, assocs, risks, outputs, now, created, elsewhere>>

\* Lines 107-146: build the RiskModel objects; the first reads analysis.id,
\* which reloads the expired row (ObjectDeletedError when it is gone).
TaskBuildRisks ==
    /\ \E i \in 1..Len(tasks) :
        /\ tasks[i].pc = "risks"
        /\ IF TaskRow(tasks[i]) = {}
           THEN Fails(i)
           ELSE /\ tasks' = [tasks EXCEPT ![i].pc = "save_risks"]
                /\ UNCHANGED analyses
    /\ resp' = NoResp
    /\ UNCHANGED <<documents, files, assocs, risks, outputs, now, created, elsewhere>>

\* Line 148: db.commit() inserts the risk rows.
TaskSaveRisks ==
    /\ \E i \in 1..Len(tasks) :
        /\ tasks[i].pc = "save_risks"
        /\ NextRowId(risks) + Len(tasks[i].risks_data) - 1 <= MaxRisks
        /\ risks' = risks \cup RiskRows(tasks[i].row, tasks[i].risks_data)
        /\ tasks' = [tasks EXCEPT ![i].pc = "step85"]
    /\ resp' = NoResp
    /\ UNCHANGED <<documents, files, analyses, assocs, outputs, now, created, elsewhere>>

\* Lines 150-153: report "Generating Word report...".
TaskReportStep ==
    /\ \E i \in 1..Len(tasks) :
        /\ tasks[i].pc = "step85"
        /\ Progress(i, "Generating Word report...", 85, "report")
    /\ resp' = NoResp
    /\ UNCHANGED <<documents, files, assocs, risks, outputs, now, created, elsewhere>>

\* f"{analysis_id}_report.docx" and f"{analysis_id}_dashboard.html"
ReportFile(analysis_id) == <<analysis_id, "_report.docx">>
DashboardFile(analysis_id) == <<analysis_id, "_dashboard.html">>

\* Lines 155-178: generate_report (reads analysis.name, writes the file, may
\* raise), then report "Generating interactive dashboard...".
TaskReport ==
    /\ \E i \in 1..Len(tasks), raises \in BOOLEAN :
        /\ tasks[i].pc = "report"
        /\ IF TaskRow(tasks[i]) = {} \/ raises
           THEN Fails(i) /\ UNCHANGED outputs
           ELSE /\ outputs' = outputs \cup {ReportFile(tasks[i].analysis_id)}
                /\ analyses' = Committed(tasks[i],
                      [current_step |-> "Generating interactive dashboard...",
                       progress |-> 95])
                /\ tasks' = [tasks EXCEPT ![i].pc = "dashboard",
                                          ![i].committed = Append(@, 95)]
    /\ resp' = NoResp
    /\ UNCHANGED <<documents, files, assocs, risks, now, created, elsewhere>>

\* Lines 180-219: generate_dashboard (reads analysis.name, writes the file,
\* may raise), then store result_data and mark the analysis completed.
TaskDashboard ==
    /\ \E i \in 1..Len(tasks), raises \in BOOLEAN :
        LET t == tasks[i]
        IN  /\ t.pc = "dashboard"
            /\ IF TaskRow(t) = {} \/ raises
               THEN Fails(i) /\ UNCHANGED outputs
               ELSE /\ outputs' = outputs \cup {DashboardFile(t.analysis_id)}
                    /\ analyses' = Committed(t,
                          [status |-> "completed", completed_at |-> "set",
                           progress |-> 100, current_step |-> "Analysis complete",
                           result_data |-> <<ResultData(t.document_ids, t.risks_data)>>,
                           report_path |-> <<"/api/analyses/", t.analysis_id, "/download/report">>,
                           dashboard_path |-> <<"/api/analyses/", t.analysis_id, "/download/dashboard">>])
                    /\ tasks' = RemoveAt(tasks, i)
    /\ resp' = NoResp
    /\ UNCHANGED <<documents, files, assocs, risks, now, created, elsewhere>>

\* One step of run_analysis_task.
RunAnalysisTask ==
    \/ TaskStart
    \/ TaskLoadDocuments
    \/ TaskPrepare
    \/ TaskPhase
    \/ TaskAnalyze
    \/ TaskBuildRisks
    \/ TaskSaveRisks
    \/ TaskReportStep
    \/ TaskReport
    \/ TaskDashboard

\* ------------------------------------------------------- read-only handlers
\* A handler that only queries is the function from the database to its
\* response; the actions below put that response in resp.

\* GET /api/documents/{doc_id}
GetDocumentResponse(doc_id) ==
    LET found == DocumentsByDocId(doc_id)
    IN  IF found = {}
        THEN [op |-> "get_document", status |-> 404, doc_id |-> doc_id]
        ELSE [op |-> "get_document", status |-> 200, doc_id |-> doc_id,
              document |-> First(found)]

\* GET /api/documents/ (skip 0, limit 100): the documents listed.
ListDocumentsResponse ==
    [op |-> "list_documents", status |-> 200, documents |-> documents]

\* The elements of page_nums.split(","): decimal numerals (one with a leading
\* blank, one that is no page of any document), a word and the empty string.
PageTokens == {"1", " 2", "9", "x", ""}

\* int(p): the value, for the tokens int() accepts (it raises ValueError for
\* the others).
IntOf == ("1" :> 1 @@ " 2" :> 2 @@ "9" :> 9)

\* The page_nums query strings, each given as its page_nums.split(",") (the
\* empty string is <<"">>), and None when the parameter is absent.
PageNumsQueries ==
    {None} \cup {Some(l) : l \in UNION {[1..n -> PageTokens] : n \in 1..MaxTokens}}

\* [p for p in pages if p.get("page_num") in requested_pages]
RECURSIVE PagesRequested(_, _)
PagesRequested(pages, requested_pages) ==
    IF pages = <<>> THEN <<>>
    ELSE (IF Head(pages).page_num \in requested_pages THEN <<Head(pages)>> ELSE <<>>)
         \o PagesRequested(Tail(pages), requested_pages)

\* A faulty get_document_pages for C12: a token that is no integer is skipped.
GetDocumentPagesLenient(doc_id, page_nums) ==
    LET found == DocumentsByDocId(doc_id)
        document == First(found)
        tokens == page_nums.list
        requested_pages == {IntOf[t] : t \in Range(tokens) \cap DOMAIN IntOf}
    IN  IF found = {}
        THEN [op |-> "get_document_pages", status |-> 404, doc_id |-> doc_id,
              page_nums |-> page_nums]
        ELSE IF page_nums.none \/ tokens = <<"">>
        THEN [op |-> "get_document_pages", status |-> 200, doc_id |-> doc_id,
              page_nums |-> page_nums, total_pages |-> document.page_count,
              pages |-> document.pages_data]
        ELSE [op |-> "get_document_pages", status |-> 200, doc_id |-> doc_id,
              page_nums |-> page_nums, total_pages |-> document.page_count,
              pages |-> PagesRequested(document.pages_data, requested_pages)]

\* GET /api/documents/{doc_id}/pages?page_nums= ; `if page_nums:` is false for
\* None and for the empty string.
GetDocumentPagesResponse(doc_id, page_nums) ==
    LET found == DocumentsByDocId(doc_id)
        document == First(found)
        tokens == page_nums.list
        requested_pages == {IntOf[t] : t \in Range(tokens)}
    IN  IF found = {}
        THEN [op |-> "get_document_pages", status |-> 404, doc_id |-> doc_id,
              page_nums |-> page_nums]
        ELSE IF page_nums.none \/ tokens = <<"">>
        THEN [op |-> "get_document_pages", status |-> 200, doc_id |-> doc_id,
              page_nums |-> page_nums, total_pages |-> document.page_count,
              pages |-> document.pages_data]
        ELSE IF \E t \in Range(tokens) : t \notin DOMAIN IntOf
        THEN [op |-> "get_document_pages", status |-> 400, doc_id |-> doc_id,
              page_nums |-> page_nums, detail |-> "Invalid page numbers format"]
        ELSE [op |-> "get_document_pages", status |-> 200, doc_id |-> doc_id,
              page_nums |-> page_nums, total_pages |-> document.page_count,
              pages |-> PagesRequested(document.pages_data, requested_pages)]

\* A faulty AnalysisResponse for C10: risk_count counts the risks of every
\* analysis.
AnalysisResponseAllRisks(analysis) ==
    [id |-> analysis.id, analysis_id |-> analysis.analysis_id,
     status |-> analysis.status, progress |-> analysis.progress,
     created_at |-> analysis.created_at,
     document_count |-> Cardinality({x \in assocs : x.analysis_id = analysis.id}),
     risk_count |-> Cardinality(risks)]

\* AnalysisResponse(...) built for one analysis row, with the counts of its
\* association rows and of its risk rows (lines 326-347, dashboard.py 71-92).
AnalysisResponse(analysis) ==
    [id |-> analysis.id, analysis_id |-> analysis.analysis_id,
     status |-> analysis.status, progress |-> analysis.progress,
     created_at |-> analysis.created_at,
     document_count |-> Cardinality({x \in assocs : x.analysis_id = analysis.id}),
     risk_count |-> Cardinality({r \in risks : r.analysis_id = analysis.id})]

\* The orders in which `ORDER BY created_at DESC` can return rows: rows with
\* equal created_at come in any order.
RECURSIVE OrderByCreatedAtDesc(_)
OrderByCreatedAtDesc(rows) ==
    IF rows = {} THEN {<<>>}
    ELSE LET latest == {r \in rows : \A x \in rows : x.created_at <= r.created_at}
         IN  UNION {{<<r>> \o rest : rest \in OrderByCreatedAtDesc(rows \ {r})} :
                    r \in latest}

\* A faulty page for C8: the offset is ignored.
LimitOnly(ordered, skip, limit) == SubSeq(ordered, 1, Min(Len(ordered), limit))

\* .offset(skip).limit(limit) of an ordered result
OffsetLimit(ordered, skip, limit) ==
    SubSeq(ordered, skip + 1, Min(Len(ordered), skip + limit))

\* GET /api/analyses/?skip=&limit=&status= : the responses possible (one per
\* order the database may return); a status filter that is not given is NULL.
ListAnalysesResponses(skip, limit, status) ==
    LET rows == IF status # NULL THEN {a \in analyses : a.status = status}
                ELSE analyses
    IN  {[op |-> "list_analyses", status |-> 200, skip |-> skip, limit |-> limit,
          filter |-> status,
          analyses |-> [i \in 1..Len(page) |-> AnalysisResponse(page[i])]] :
            page \in {OffsetLimit(o, skip, limit) : o \in OrderByCreatedAtDesc(rows)}}

\* GET /api/analyses/{analysis_id}
GetAnalysisResponse(analysis_id) ==
    LET found == AnalysesByAnalysisId(analysis_id)
        analysis == First(found)
    IN  IF found = {}
        THEN [op |-> "get_analysis", status |-> 404, analysis_id |-> analysis_id]
        ELSE [op |-> "get_analysis", status |-> 200, analysis_id |-> analysis_id,
              analysis |-> analysis,
              documents |-> {d \in documents :
                    \E x \in assocs : x.analysis_id = analysis.id /\ x.document_id = d.id},
              risks |-> {r \in risks : r.analysis_id = analysis.id}]

\* A faulty get_analysis_risks for C9: the severity filter is ignored when a
\* category is given.
GetAnalysisRisksOneFilter(analysis_id, category, severity) ==
    LET found == AnalysesByAnalysisId(analysis_id)
        analysis == First(found)
        q0 == {r \in risks : r.analysis_id = analysis.id}
        q1 == IF category # NULL THEN {r \in q0 : r.category = category}
              ELSE IF severity # NULL THEN {r \in q0 : r.severity = severity}
              ELSE q0
    IN  IF found = {}
        THEN [op |-> "get_analysis_risks", status |-> 404, analysis_id |-> analysis_id,
              category |-> category, severity |-> severity]
        ELSE [op |-> "get_analysis_risks", status |-> 200, analysis_id |-> analysis_id,
              category |-> category, severity |-> severity,
              total |-> Cardinality(q1), risks |-> q1]

\* GET /api/analyses/{analysis_id}/risks?category=&severity= ; a filter that
\* is not given is NULL.
GetAnalysisRisksResponse(analysis_id, category, severity) ==
    LET found == AnalysesByAnalysisId(analysis_id)
        analysis == First(found)
        q0 == {r \in risks : r.analysis_id = analysis.id}
        q1 == IF category # NULL THEN {r \in q0 : r.category = category} ELSE q0
        q2 == IF severity # NULL THEN {r \in q1 : r.severity = severity} ELSE q1
    IN  IF found = {}
        THEN [op |-> "get_analysis_risks", status |-> 404, analysis_id |-> analysis_id,
              category |-> category, severity |-> severity]
        ELSE [op |-> "get_analysis_risks", status |-> 200, analysis_id |-> analysis_id,
              category |-> category, severity |-> severity,
              total |-> Cardinality(q2), risks |-> q2]

\* A faulty download for C4: the status of the analysis is not checked.
DownloadAnyStatus(op, analysis_id, file) ==
    LET found == AnalysesByAnalysisId(analysis_id)
    IN  IF found = {}
        THEN [op |-> op, status |-> 404, analysis_id |-> analysis_id,
              detail |-> "Analysis not found"]
        ELSE IF file \notin outputs
        THEN [op |-> op, status |-> 404, analysis_id |-> analysis_id,
              detail |-> "File not found"]
        ELSE [op |-> op, status |-> 200, analysis_id |-> analysis_id, file |-> file]

\* GET /api/analyses/{analysis_id}/download/<kind>: the checks of
\* download_report and download_dashboard, file being the output file asked for.
Download(op, analysis_id, file) ==
    LET found == AnalysesByAnalysisId(analysis_id)
    IN  IF found = {}
        THEN [op |-> op, status |-> 404, analysis_id |-> analysis_id,
              detail |-> "Analysis not found"]
        ELSE IF First(found).status # "completed"
        THEN [op |-> op, status |-> 400, analysis_id |-> analysis_id,
              detail |-> "Analysis is not yet completed"]
        ELSE IF file \notin outputs
        THEN [op |-> op, status |-> 404, analysis_id |-> analysis_id,
              detail |-> "File not found"]
        ELSE [op |-> op, status |-> 200, analysis_id |-> analysis_id, file |-> file]

DownloadReportResponse(analysis_id) ==
    Download("download_report", analysis_id, ReportFile(analysis_id))

DownloadDashboardResponse(analysis_id) ==
    Download("download_dashboard", analysis_id, DashboardFile(analysis_id))

\* .limit(5) of the recent analyses (dashboard.py line 67)
RecentLimit == 5

\* A faulty get_dashboard_stats for C7: completed_analyses counts the
\* analyses that have ended, failed ones included.
DashboardStatsCountsEnded ==
    {[op |-> "get_dashboard_stats", status |-> 200,
      total_documents |-> Cardinality(documents),
      total_analyses |-> Cardinality(analyses),
      completed_analyses |->
          Cardinality({a \in analyses : a.status \in {"completed", "failed"}}),
      total_risks |-> Cardinality(risks),
      recent_analyses |-> [i \in 1..Len(recent) |-> AnalysisResponse(recent[i])]] :
        recent \in {OffsetLimit(o, 0, RecentLimit) : o \in OrderByCreatedAtDesc(analyses)}}

\* GET /api/dashboard/stats: the responses possible (one per order the
\* database may return the recent analyses in).
DashboardStatsResponses ==
    {[op |-> "get_dashboard_stats", status |-> 200,
      total_documents |-> Cardinality(documents),
      total_analyses |-> Cardinality(analyses),
      completed_analyses |-> Cardinality({a \in analyses : a.status = "completed"}),
      total_risks |-> Cardinality(risks),
      recent_analyses |-> [i \in 1..Len(recent) |-> AnalysisResponse(recent[i])]] :
        recent \in {OffsetLimit(o, 0, RecentLimit) : o \in OrderByCreatedAtDesc(analyses)}}

\* The read-only handlers as steps: the response is returned, the database
\* is left alone.
GetDocument ==
    /\ \E doc_id \in DocIds : resp' = GetDocumentResponse(doc_id)
    /\ UNCHANGED <<documents, files, analyses, assocs, risks, outputs, tasks, now, created, elsewhere>>

GetDocumentPages ==
    /\ \E doc_id \in DocIds, page_nums \in PageNumsQueries :
          resp' = GetDocumentPagesResponse(doc_id, page_nums)
    /\ UNCHANGED <<documents, files, analyses, assocs, risks, outputs, tasks, now, created, elsewhere>>

ListDocuments ==
    /\ resp' = ListDocumentsResponse
    /\ UNCHANGED <<documents, files, analyses, assocs, risks, outputs, tasks, now, created, elsewhere>>

\* The status filters of list_analyses tried as steps.
ListStatuses == {NULL, "pending", "completed"}

ListAnalyses ==
    /\ \E skip \in 0..MaxPage, limit \in 0..MaxPage, status \in ListStatuses :
          resp' \in ListAnalysesResponses(skip, limit, status)
    /\ UNCHANGED <<documents, files, analyses, assocs, risks, outputs, tasks, now, created, elsewhere>>

GetDashboardStats ==
    /\ resp' \in DashboardStatsResponses
    /\ UNCHANGED <<documents, files, analyses, assocs, risks, outputs, tasks, now, created, elsewhere>>

DownloadReport ==
    /\ \E analysis_id \in AnalysisIds : resp' = DownloadReportResponse(analysis_id)
    /\ UNCHANGED <<documents, files, analyses, assocs, risks, outputs, tasks, now, created, elsewhere>>

DownloadDashboard ==
    /\ \E analysis_id \in AnalysisIds : resp' = DownloadDashboardResponse(analysis_id)
    /\ UNCHANGED <<documents, files, analyses, assocs, risks, outputs, tasks, now, created, elsewhere>>

\* The filters of get_analysis_risks tried as steps.
QueryCategories == {NULL, "Operational"}
QuerySeverities == {NULL, "Medium"}

GetAnalysisRisks ==
    /\ \E analysis_id \in AnalysisIds, category \in QueryCategories,
          severity \in QuerySeverities :
            resp' = GetAnalysisRisksResponse(analysis_id, category, severity)
    /\ UNCHANGED <<documents, files, analyses, assocs, risks, outputs, tasks, now, created, elsewhere>>

\* ------------------------------------- indexing router and its pipeline
\* routers/indexing.py keeps its jobs in the dict indexing_jobs (here the set
\* of its values, one per job_id) and runs each job as a coroutine on the
\* event loop: what runs between two suspensions is one step.  The only
\* suspensions of run_indexing_job are the HTTP calls of the summaries, so a
\* job is suspended only while a document is being summarized.

\* f"IDX{str(uuid.uuid4())[:8].upper()}"
JobId(u) == <<"IDX", u>>
JobIds == {JobId(u) : u \in Uuids}

\* The document_ids of IndexingJobCreate: lists of document ids in any order,
\* stored or not, repeated or not.
IndexRequests == UNION {[1..n -> DocIds] : n \in 0..MaxIndexDocs}

\* The dict start_indexing stores (name and the time stamps are left out).
NewJob(job_id, total_documents) ==
    [job_id |-> job_id, status |-> "pending", progress |-> 0,
     current_step |-> "Queued", total_documents |-> total_documents,
     processed_documents |-> 0, error_message |-> NULL, result |-> <<>>]

\* The coroutine start_indexing hands to background_tasks.add_task:
\* processing holds the document being summarized (`doc` of the loop), pages
\* the number of pages extracted from it.
NewJobTask(job_id, docs) ==
    [job_id |-> job_id, documents |-> docs, pc |-> "job_start",
     processing |-> <<>>, pages |-> 0, indexed_documents |-> <<>>]

\* indexing_jobs after `indexing_jobs[job_id][field] = ...` for the fields of
\* changes.
JobSet(jobs, job_id, changes) ==
    {IF j.job_id = job_id
     THEN [f \in DOMAIN j |-> IF f \in DOMAIN changes THEN changes[f] ELSE j[f]]
     ELSE j : j \in jobs}

\* The dicts of the documents of a request, in the order of the request.
DocumentDicts(document_ids) ==
    [i \in 1..Len(document_ids) |->
        LET doc == First(DocumentsByDocId(document_ids[i]))
        IN  [doc_id |-> doc.doc_id, file_path |-> doc.file_path]]

\* POST /api/indexing/start: 404 when a document of the request is not
\* stored; else the job is stored under a new job_id (replacing a job of the
\* same id) and its coroutine is queued.
StartIndexing ==
    /\ \E document_ids \in IndexRequests, u \in Uuids :
        LET job_id == JobId(u)
        IN  IF \E i \in 1..Len(document_ids) : DocumentsByDocId(document_ids[i]) = {}
            THEN /\ resp' = [op |-> "start_indexing", status |-> 404,
                             document_ids |-> document_ids]
                 /\ UNCHANGED <<indexing_jobs, tasks>>
            ELSE /\ Len(tasks) < MaxIndexTasks
                 /\ indexing_jobs' = {j \in indexing_jobs : j.job_id # job_id}
                        \cup {NewJob(job_id, Len(document_ids))}
                 /\ tasks' = Append(tasks, NewJobTask(job_id, DocumentDicts(document_ids)))
                 /\ resp' = [op |-> "start_indexing", status |-> 200,
                             document_ids |-> document_ids,
                             job |-> NewJob(job_id, Len(document_ids))]
    /\ UNCHANGED <<documents, files, analyses, assocs, risks, outputs, now, created, data_room>>

\* process_document's result for a document of n pages (the texts of the
\* summaries stand for what the summarizer returns).
ProcessedDocument(doc, n) ==
    [doc_id |-> doc.doc_id, page_count |-> n,
     pages_data |-> [p \in 1..n |-> [page_num |-> p, summdesc |-> <<"[Page", p>>,
                                     image_path |-> <<doc.doc_id, p>>, has_image |-> TRUE]],
     summdesc |-> "summary of the pages"]

\* sum(doc['page_count'] for doc in indexed_documents)
RECURSIVE SumPageCount(_)
SumPageCount(indexed_documents) ==
    IF indexed_documents = <<>> THEN 0
    ELSE Head(indexed_documents).page_count + SumPageCount(Tail(indexed_documents))

\* data_room_index of build_data_room_index (index_id and created_at are
\* left out).
DataRoomIndex(indexed_documents) ==
    [total_documents |-> Len(indexed_documents),
     total_pages |-> SumPageCount(indexed_documents),
     documents |-> indexed_documents]

\* indexing_jobs[job_id]['result'] of run_indexing_job.
JobResult(index) ==
    [total_documents |-> index.total_documents,
     total_pages |-> index.total_pages,
     documents |-> [i \in 1..Len(index.documents) |->
                       [doc_id |-> index.documents[i].doc_id,
                        page_count |-> index.documents[i].page_count,
                        summary |-> index.documents[i].summdesc]]]

\* The documents table after the loop of run_indexing_job over
\* result['documents'] and its commit: a later entry of the same doc_id
\* overwrites an earlier one, a document no longer stored is skipped.
RECURSIVE DocumentsIndexed(_, _)
DocumentsIndexed(table, indexed_documents) ==
    IF indexed_documents = <<>> THEN table
    ELSE LET indexed_doc == Head(indexed_documents)
             updated == {IF d.doc_id = indexed_doc.doc_id
                         THEN [d EXCEPT !.summary = indexed_doc.summdesc,
                                        !.page_count = indexed_doc.page_count,
                                        !.pages_data = indexed_doc.pages_data]
                         ELSE d : d \in table}
         IN  DocumentsIndexed(updated, Tail(indexed_documents))

\* What the job's dict is set to when the job fails at a position: the
\* progress was reported before the document was taken.
FailedJob(t, position) ==
    IF position = 0
    THEN [status |-> "failed", error_message |-> "error", current_step |-> "Failed"]
    ELSE [status |-> "failed", error_message |-> "error", current_step |-> "Failed",
          progress |-> ((position - 1) * 100) \div Len(t.documents)]

\* A faulty except branch for C15: the documents processed before the failure
\* are written to the database.
JobFailsKeepingWork(i, position) ==
    /\ indexing_jobs' = JobSet(indexing_jobs, tasks[i].job_id, FailedJob(tasks[i], position))
    /\ documents' = DocumentsIndexed(documents, tasks[i].indexed_documents)
    /\ tasks' = RemoveAt(tasks, i)
    /\ resp' = [op |-> "run_indexing_job", job_id |-> tasks[i].job_id,
                raised |-> TRUE, position |-> position]

\* The except branch of run_indexing_job (lines 121-125), reached when the
\* document at `position` could not be converted or read, or the index could
\* not be saved (position 0): the job is failed and the coroutine ends.
JobFails(i, position) ==
    /\ indexing_jobs' = JobSet(indexing_jobs, tasks[i].job_id, FailedJob(tasks[i], position))
    /\ documents' = documents
    /\ tasks' = RemoveAt(tasks, i)
    /\ resp' = [op |-> "run_indexing_job", job_id |-> tasks[i].job_id,
                raised |-> TRUE, position |-> position]

\* A faulty continuation for C16: the documents are processed last first.
JobContinuesBackwards(i, indexed_documents) ==
    LET t == tasks[i]
        total == Len(t.documents)
        position == Len(indexed_documents) + 1
        doc == t.documents[total - position + 1]
    IN  \E raises \in BOOLEAN, n \in 1..MaxIndexPages :
            IF raises \/ files[doc.file_path] = NULL
            THEN JobFails(i, position)
            ELSE /\ indexing_jobs' = JobSet(indexing_jobs, t.job_id,
                        [status |-> "running",
                         progress |-> ((position - 1) * 100) \div total,
                         current_step |-> <<"Processing document", position, total>>])
                 /\ tasks' = [tasks EXCEPT ![i].pc = "summarize", ![i].pages = n,
                                           ![i].processing = <<doc>>,
                                           ![i].indexed_documents = indexed_documents]
                 /\ documents' = documents
                 /\ resp' = [op |-> "run_indexing_job", job_id |-> t.job_id,
                             raised |-> FALSE, position |-> position]

\* build_data_room_index from the top of a round of its loop (lines 341-357)
\* to the first summary of process_document: the progress is reported, then
\* the document is converted and its pages are extracted, which raises when
\* the file is gone and can raise otherwise.
JobContinues(i, indexed_documents) ==
    LET t == tasks[i]
        total == Len(t.documents)
        position == Len(indexed_documents) + 1
        doc == t.documents[position]
    IN  \E raises \in BOOLEAN, n \in 1..MaxIndexPages :
            IF raises \/ files[doc.file_path] = NULL
            THEN JobFails(i, position)
            ELSE /\ indexing_jobs' = JobSet(indexing_jobs, t.job_id,
                        [status |-> "running",
                         progress |-> ((position - 1) * 100) \div total,
                         current_step |-> <<"Processing document", position, total>>])
                 /\ tasks' = [tasks EXCEPT ![i].pc = "summarize", ![i].pages = n,
                                           ![i].processing = <<doc>>,
                                           ![i].indexed_documents = indexed_documents]
                 /\ documents' = documents
                 /\ resp' = [op |-> "run_indexing_job", job_id |-> t.job_id,
                             raised |-> FALSE, position |-> position]

\* build_data_room_index after its loop (lines 359-378) and the rest of
\* run_indexing_job (lines 77-119): the index is saved (which can raise), the
\* documents are updated and committed, the job is completed.
JobCompletes(i, indexed_documents) ==
    LET t == tasks[i]
        index == DataRoomIndex(indexed_documents)
    IN  \E raises \in BOOLEAN :
            IF raises
            THEN JobFails(i, 0)
            ELSE /\ documents' = DocumentsIndexed(documents, index.documents)
                 /\ indexing_jobs' = JobSet(indexing_jobs, t.job_id,
                        [status |-> "completed", progress |-> 100,
                         current_step |-> "Complete",
                         processed_documents |-> Len(index.documents),
                         result |-> <<JobResult(index)>>])
                 /\ tasks' = RemoveAt(tasks, i)
                 /\ resp' = [op |-> "run_indexing_job", job_id |-> t.job_id,
                             raised |-> FALSE, position |-> 0]

\* run_indexing_job from its start to its first suspension.
JobStart ==
    /\ \E i \in 1..Len(tasks) :
        /\ tasks[i].pc = "job_start"
        /\ IF tasks[i].documents = <<>>
           THEN JobCompletes(i, <<>>)
           ELSE JobContinues(i, <<>>)
    /\ UNCHANGED <<files, analyses, assocs, risks, outputs, now, created, data_room>>

\* run_indexing_job resumed by the last summary of a document: the result of
\* process_document is appended, then the next document is taken or, after
\* the last one, the job is completed.
JobResume ==
    /\ \E i \in 1..Len(tasks) :
        LET t == tasks[i]
            result == ProcessedDocument(t.processing[1], t.pages)
            indexed_documents == Append(t.indexed_documents, result)
        IN  /\ t.pc = "summarize"
            /\ IF Len(indexed_documents) = Len(t.documents)
               THEN JobCompletes(i, indexed_documents)
               ELSE JobContinues(i, indexed_documents)
    /\ UNCHANGED <<files, analyses, assocs, risks, outputs, now, created, data_room>>

\* One step of run_indexing_job.
RunIndexingJob ==
    \/ JobStart
    \/ JobResume

\* ------------------------------------------------ src/config.py: SystemConfig

\* The values of ANTHROPIC_API_KEY tried: unset (""), and two keys.
ApiKeys == {"", "sk-ant-one", "sk-ant-two"}

\* APIConfig: the model, max_tokens and the key vary.
APIConfigs ==
    [api_key : ApiKeys,
     model : {"claude-sonnet-4-5-20250929", "claude-haiku"},
     max_tokens : {4096, 8192},
     temperature : {0},
     beta_headers : {<<"skills-2025-10-02", "files-api-2025-04-14">>}]

\* AgentConfig: max_retries varies.
AgentConfigs ==
    [main_agent_model : {"claude-sonnet-4-5-20250929"},
     analysis_subagent_model : {"claude-sonnet-4-5-20250929"},
     report_subagent_model : {"claude-sonnet-4-5-20250929"},
     dashboard_subagent_model : {"claude-sonnet-4-5-20250929"},
     max_retries : {1, 3},
     timeout_seconds : {300},
     parallel_document_analysis : {TRUE},
     max_concurrent_analyses : {5}]

\* OutputConfig: the directory and the organization of the report vary.
OutputConfigs ==
    [output_directory : {"./output", "/tmp/out"},
     report_filename : {"legal_risk_analysis_report.docx"},
     dashboard_filename : {"legal_risk_analysis_dashboard.html"},
     include_methodology : {TRUE},
     include_appendices : {TRUE},
     report_organization : {"by_risk_level", "by_category"},
     dashboard_theme : {"light"},
     show_charts : {TRUE},
     enable_export : {TRUE}]

\* WebResearchConfig: enabled varies.
WebResearchConfigs ==
    [enabled : BOOLEAN,
     max_search_results : {10},
     allowed_domains : {<<>>},
     blocked_domains : {<<>>},
     rate_limit_requests_per_minute : {30}]

SystemConfigs ==
    [api : APIConfigs, agent : AgentConfigs, output : OutputConfigs,
     web_research : WebResearchConfigs]

\* A faulty to_dict for C17: the key is copied like the other fields.
ToDictWithKey(self) ==
    [api |-> [api_key |-> self.api.api_key,
              model |-> self.api.model,
              max_tokens |-> self.api.max_tokens,
              temperature |-> self.api.temperature],
     agent |-> [main_agent_model |-> self.agent.main_agent_model,
                analysis_subagent_model |-> self.agent.analysis_subagent_model,
                report_subagent_model |-> self.agent.report_subagent_model,
                dashboard_subagent_model |-> self.agent.dashboard_subagent_model,
                max_retries |-> self.agent.max_retries,
                timeout_seconds |-> self.agent.timeout_seconds],
     output |-> [output_directory |-> self.output.output_directory,
                 report_filename |-> self.output.report_filename,
                 dashboard_filename |-> self.output.dashboard_filename],
     web_research |-> [enabled |-> self.web_research.enabled,
                       max_search_results |-> self.web_research.max_search_results]]

\* SystemConfig.to_dict
ToDict(self) ==
    [api |-> [api_key |-> "***",
              model |-> self.api.model,
              max_tokens |-> self.api.max_tokens,
              temperature |-> self.api.temperature],
     agent |-> [main_agent_model |-> self.agent.main_agent_model,
                analysis_subagent_model |-> self.agent.analysis_subagent_model,
                report_subagent_model |-> self.agent.report_subagent_model,
                dashboard_subagent_model |-> self.agent.dashboard_subagent_model,
                max_retries |-> self.agent.max_retries,
                timeout_seconds |-> self.agent.timeout_seconds],
     output |-> [output_directory |-> self.output.output_directory,
                 report_filename |-> self.output.report_filename,
                 dashboard_filename |-> self.output.dashboard_filename],
     web_research |-> [enabled |-> self.web_research.enabled,
                       max_search_results |-> self.web_research.max_search_results]]

\* main.py hands config.to_dict() to create_main_agent.
ConfigToDict ==
    /\ \E config \in SystemConfigs :
          resp' = [op |-> "SystemConfig.to_dict", config |-> config,
                   result |-> ToDict(config)]
    /\ UNCHANGED <<documents, files, analyses, assocs, risks, outputs, tasks, now, created, elsewhere>>

\* ---------------------------------------- legal-risk-agent: DataRoom

\* The doc_id values of the data room and one that is never in it.
RoomDocIds == {"DOC001", "DOC002"}
RoomRequestIds == RoomDocIds \cup {"NONEXISTENT"}

\* The `pages` lists of a document: up to MaxRoomPages pages, their page_num
\* in any order, repeated or not.
RoomPageLists ==
    LET nums == UNION {[1..n -> 1..MaxPageNum] : n \in 0..MaxRoomPages}
    IN  {[i \in 1..Len(l) |->
            [page_num |-> l[i], summdesc |-> <<"summary of page", i>>,
             page_image |-> <<"image of page", i>>]] : l \in nums}

\* The page_nums arguments: None, or a list of up to MaxRequested numbers.
RoomPageNums ==
    {None} \cup {Some(l) : l \in UNION {[1..n -> 1..MaxPageNum] : n \in 0..MaxRequested}}

\* DataRoom.__init__: {doc['doc_id']: doc for doc in documents}; of two
\* documents with the same doc_id the later one stays.
DataRoom(docs) ==
    [id \in {docs[i].doc_id : i \in 1..Len(docs)} |->
        docs[Max({i \in 1..Len(docs) : docs[i].doc_id = id})]]

\* sorted(missing)
Sorted(S) ==
    CHOOSE q \in [1..Cardinality(S) -> S] :
        \A i, j \in 1..Cardinality(S) : i < j => q[i] < q[j]

\* [p for p in pages if p['page_num'] in page_nums]
RECURSIVE PagesIn(_, _)
PagesIn(pages, page_nums) ==
    IF pages = <<>> THEN <<>>
    ELSE (IF Head(pages).page_num \in Range(page_nums) THEN <<Head(pages)>> ELSE <<>>)
         \o PagesIn(Tail(pages), page_nums)

\* Lines 105-113: the page data returned for the pages.
PageData(pages) ==
    [i \in 1..Len(pages) |->
        [page_num |-> pages[i].page_num, summdesc |-> pages[i].summdesc,
         image |-> pages[i].page_image]]

\* A faulty get_document_pages for C11: the pages found are returned even
\* when some requested page is missing.
DataRoomGetFoundPages(doc_id, page_nums) ==
    IF doc_id \notin DOMAIN data_room
    THEN <<[error |-> <<"Document", doc_id, "not found in data room.">>]>>
    ELSE IF page_nums.none THEN PageData(data_room[doc_id].pages)
    ELSE PageData(PagesIn(data_room[doc_id].pages, page_nums.list))

\* DataRoom.get_document_pages(doc_id, page_nums): the list returned.
DataRoomGetDocumentPages(doc_id, page_nums) ==
    IF doc_id \notin DOMAIN data_room
    THEN <<[error |-> <<"Document", doc_id, "not found in data room.">>]>>
    ELSE IF page_nums.none THEN PageData(data_room[doc_id].pages)
    ELSE LET pages == PagesIn(data_room[doc_id].pages, page_nums.list)
             found_nums == {pages[i].page_num : i \in 1..Len(pages)}
             missing == Range(page_nums.list) \ found_nums
         IN  IF missing # {}
             THEN <<[error |-> <<"Pages", Sorted(missing), "not found in document",
                                 doc_id>>]>>
             ELSE PageData(pages)

\* A call of DataRoom.get_document_pages.
GetDocumentPagesOfRoom ==
    /\ \E doc_id \in RoomRequestIds, page_nums \in RoomPageNums :
          resp' = [op |-> "DataRoom.get_document_pages", doc_id |-> doc_id,
                   page_nums |-> page_nums,
                   result |-> DataRoomGetDocumentPages(doc_id, page_nums)]
    /\ UNCHANGED <<documents, files, analyses, assocs, risks, outputs, tasks, now,
                   created, indexing_jobs, data_room>>

\* -------------------------------------------------------- specifications

\* The value of the next uuid4() when no two calls return the same value.
FreshUuid == {created + 1}

\* The whole backend: documents, analyses and the background tasks.  Analysis
\* ids do not collide and the clock advances between two creations.
Next ==
    \/ UploadDocument(Uuids, {"bytes1"}, {""}, MaxDocuments)
    \/ DeleteDocument
    \/ CreateAnalysis(FreshUuid, {1}, MaxCreated, MaxTasks)
    \/ DeleteAnalysis(AnalysisIds)
    \/ RunAnalysisTask
    \/ GetAnalysisRisks
    \/ DownloadReport
    \/ DownloadDashboard
    \/ GetDashboardStats

Spec == Init /\ [][Next]_vars

\* The documents router alone, with doc_id collisions, two file contents and
\* both ways of giving the summary.
NextDocs ==
    \/ UploadDocument(Uuids, Contents, SummaryInputs, MaxStored)
    \/ DeleteDocument
    \/ UpdateDocumentSummary
    \/ GetDocument
    \/ ListDocuments
    \/ GetDocumentPages

SpecDocs == Init /\ [][NextDocs]_vars

\* Creating, deleting and listing analyses whose tasks have not started yet;
\* two analyses can be created at the same clock value.
NextList ==
    \/ UploadDocument({1}, {"bytes1"}, {""}, MaxDocuments)
    \/ CreateAnalysis(FreshUuid, {0, 1}, MaxListed, MaxListed)
    \/ DeleteAnalysis(AnalysisIdsUpTo(MaxListed))
    \/ ListAnalyses

SpecList == Init /\ [][NextList]_vars

\* The dashboard over a database of up to MaxRecentRows analyses, created one
\* after another (rowids and created_at grow together; analysis `tied`, if
\* there is one, was created at the same clock value as the one before it).
\* Every task has ended in the except branch at generate_report.  Analysis k
\* was created for the stored document and has the three risks the mock
\* analysis gives for it; the others were created with an empty document_ids
\* list.
RecentAnalysis(id, created_at) ==
    [NewAnalysis(id, AnalysisId(id), created_at) EXCEPT
        !.status = "failed", !.progress = 85, !.started_at = "set",
        !.current_step = "Generating Word report...", !.error_message = "error"]

InitRecent ==
    \E n \in 0..MaxRecentRows, k \in 0..MaxRecentRows :
      \E tied \in {0} \cup 2..MaxRecentRows :
        LET created_at(i) == IF tied # 0 /\ i >= tied THEN i - 1 ELSE i
            sample == SampleRisks(DocId(1), 1)
        IN  /\ k <= n
            /\ tied <= n
            /\ documents = {[id |-> 1, doc_id |-> DocId(1), file_path |-> DocId(1),
                             summary |-> StoredSummary(""),
                             page_count |-> PageCount("bytes1"),
                             pages_data |-> PagesData("bytes1")]}
            /\ files = [p \in DocIds |-> IF p = DocId(1) THEN "bytes1" ELSE NULL]
            /\ analyses = {RecentAnalysis(i, created_at(i)) : i \in 1..n}
            /\ assocs = {[analysis_id |-> k, document_id |-> 1] : i \in 1..Min(k, 1)}
            /\ risks = {RiskRow(i, k, sample[i]) : i \in 1..Min(k, 1) * Len(sample)}
            /\ outputs = {}
            /\ tasks = <<>>
            /\ now = created_at(n)
            /\ created = n
            /\ resp = NoResp
            /\ indexing_jobs = {}
            /\ data_room = <<>>

NextRecent == GetDashboardStats

SpecRecent == InitRecent /\ [][NextRecent]_vars

\* The agent's data room: a DataRoom built from a list of one or two
\* documents (the second can repeat the doc_id of the first), then calls of
\* get_document_pages.
InitDataRoom ==
    /\ \E pages1, pages2 \in RoomPageLists, id2 \in RoomDocIds, n \in 0..2 :
          data_room = DataRoom(SubSeq(
              << [doc_id |-> "DOC001", summdesc |-> "first document", pages |-> pages1],
                 [doc_id |-> id2, summdesc |-> "second document", pages |-> pages2] >>,
              1, n))
    /\ documents = {}
    /\ files = [p \in DocIds |-> NULL]
    /\ analyses = {}
    /\ assocs = {}
    /\ risks = {}
    /\ outputs = {}
    /\ tasks = <<>>
    /\ now = 0
    /\ created = 0
    /\ resp = NoResp
    /\ indexing_jobs = {}

NextDataRoom == GetDocumentPagesOfRoom

SpecDataRoom == InitDataRoom /\ [][NextDataRoom]_vars

\* The documents router with the indexing router mounted beside it.
NextIndexing ==
    \/ UploadDocument(Uuids, {"bytes1"}, {""}, MaxStored)
    \/ DeleteDocument
    \/ StartIndexing
    \/ RunIndexingJob

SpecIndexing == Init /\ [][NextIndexing]_vars

\* The configuration of the command-line system: calls of to_dict.
NextConfig == ConfigToDict

SpecConfig == Init /\ [][NextConfig]_vars

\* The analysis service called on its own.
NextService ==
    \/ AnalyzeDocumentsCall
    \/ GenerateMockAnalysisCall

SpecService == Init /\ [][NextService]_vars

\* The analyses router with the tasks of two analyses running side by side
\* (no document is stored, so every analysis is one of no document).
NextRace ==
    \/ CreateAnalysis(FreshUuid, {1}, MaxRaceCreated, MaxRaceTasks)
    \/ DeleteAnalysis(AnalysisIdsUpTo(MaxRaceCreated))
    \/ RunAnalysisTask
    \/ DownloadReport

SpecRace == Init /\ [][NextRace]_vars

\* The same, every task being run to its end: a task that can take a step
\* eventually takes one (each call it makes returns or raises).
SpecRaceFair == SpecRace /\ WF_vars(RunAnalysisTask)

\* ------------------------------------------------------------------ claims

\* C1: create_analysis with a document_ids list in which at least one id names
\* no stored document answers 404 "Documents not found"; the step changes no
\* document, file, analysis, association or risk and schedules no task.
C1_MissingDocumentRejected ==
    [][(/\ resp'.op = "create_analysis"
        /\ \E i \in 1..Len(resp'.document_ids) :
              \A d \in documents : d.doc_id # resp'.document_ids[i])
       => /\ resp'.status = 404
          /\ resp'.detail = "Documents not found"
          /\ UNCHANGED <<documents, files, analyses, assocs, risks, outputs, tasks>>]_vars

\* create_analysis has answered 404 for a list of one stored and one unknown
\* document, with an analysis already stored.
C1_Witness ==
    /\ resp.op = "create_analysis"
    /\ resp.status = 404
    /\ resp.missing # {}
    /\ \E i \in 1..Len(resp.document_ids) :
          \E d \in documents : d.doc_id = resp.document_ids[i]
    /\ analyses # {}

\* C2: delete_analysis of a stored analysis answers 200 and removes the
\* analysis, its risks and its associations; get_analysis then answers 404 and
\* list_analyses does not show it; documents, files, the other analyses and
\* their risks and associations are as before.
C2_DeleteAnalysisRemoves ==
    [][\A a \in analyses :
        (resp'.op = "delete_analysis" /\ resp'.analysis_id = a.analysis_id)
        => /\ resp'.status = 200
           /\ analyses' = analyses \ {a}
           /\ risks' = {r \in risks : r.analysis_id # a.id}
           /\ assocs' = {x \in assocs : x.analysis_id # a.id}
           /\ GetAnalysisResponse(a.analysis_id)'.status = 404
           /\ \A l \in ListAnalysesResponses(0, MaxCreated, NULL)' :
                 \A i \in 1..Len(l.analyses) : l.analyses[i].analysis_id # a.analysis_id
           /\ UNCHANGED <<documents, files>>]_vars

\* delete_analysis has answered 200 and another analysis, with risks and an
\* association to a stored document, is still there.
C2_Witness ==
    /\ resp.op = "delete_analysis"
    /\ resp.status = 200
    /\ \E a \in analyses :
          /\ \E r \in risks : r.analysis_id = a.id
          /\ \E x \in assocs : x.analysis_id = a.id /\ \E d \in documents : d.id = x.document_id

\* C3: a create_analysis that answers 200 adds exactly one analysis; it is
\* pending with progress 0, has no risks and one association per requested
\* document; the response has document_count equal to the number of requested
\* documents, risk_count 0 and an analysis_id that begins with "ANA".
C3_CreatedAnalysisIsFresh ==
    [][(resp'.op = "create_analysis" /\ resp'.status = 200)
       => \E a \in analyses' :
            LET ids == resp'.document_ids
                new == {x \in assocs' : x.analysis_id = a.id}
            IN  /\ analyses \subseteq analyses'
                /\ analyses' \ analyses = {a}
                /\ a.analysis_id = resp'.analysis_id
                /\ a.status = "pending"
                /\ a.progress = 0
                /\ {r \in risks' : r.analysis_id = a.id} = {}
                /\ assocs' \ assocs = new
                /\ Cardinality(new) = Len(ids)
                /\ \A i \in 1..Len(ids) :
                      \E d \in documents : d.doc_id = ids[i]
                          /\ [analysis_id |-> a.id, document_id |-> d.id] \in new
                /\ resp'.document_count = Len(ids)
                /\ resp'.risk_count = 0
                /\ resp'.analysis_id[1] = "ANA"]_vars

\* C4: download_report and download_dashboard answer 404 for an analysis id
\* that is not stored and 400 "Analysis is not yet completed" for an analysis
\* that is pending, running or failed; they change nothing that is stored.
C4_DownloadNeedsCompleted ==
    [][resp'.op \in {"download_report", "download_dashboard"}
       => LET found == {a \in analyses : a.analysis_id = resp'.analysis_id}
          IN  /\ found = {} => resp'.status = 404
              /\ \A a \in found :
                    a.status \in {"pending", "running", "failed"}
                    => /\ resp'.status = 400
                       /\ resp'.detail = "Analysis is not yet completed"
              /\ UNCHANGED <<documents, files, analyses, assocs, risks, outputs, tasks>>]_vars

\* download_dashboard has answered 400 for a failed analysis.
C4_Witness ==
    /\ resp.op = "download_dashboard"
    /\ resp.status = 400
    /\ \E a \in analyses : a.analysis_id = resp.analysis_id /\ a.status = "failed"

\* C5: no two stored documents have the same doc_id.
C5_DocIdsDistinct ==
    \A d1, d2 \in documents : d1.doc_id = d2.doc_id => d1 = d2

\* Two documents are stored and an upload whose generated doc_id was already
\* stored has been refused.
C5_Witness ==
    /\ Cardinality(documents) = 2
    /\ resp.op = "upload_document"
    /\ resp.status = 500

\* C6: delete_document of a stored document answers 200 and removes its row
\* and its file; get_document then answers 404; the other documents and files
\* are as before.  For a doc_id that is not stored it answers 404 and nothing
\* changes.
C6_DeleteDocumentRemoves ==
    [][\A doc_id \in DocIds :
        (resp'.op = "delete_document" /\ resp'.doc_id = doc_id)
        => LET found == {d \in documents : d.doc_id = doc_id}
           IN  IF found = {}
               THEN /\ resp'.status = 404
                    /\ UNCHANGED <<documents, files, analyses, assocs, risks, outputs, tasks>>
               ELSE /\ resp'.status = 200
                    /\ documents' = documents \ found
                    /\ \A p \in DocIds :
                          files'[p] = IF \E d \in found : d.file_path = p
                                      THEN NULL ELSE files[p]
                    /\ GetDocumentResponse(doc_id)'.status = 404
                    /\ \A d \in ListDocumentsResponse'.documents : d.doc_id # doc_id
                    /\ UNCHANGED <<analyses, risks, outputs, tasks>>]_vars

\* delete_document has answered 200 and another document, with its file, is
\* still stored.
C6_Witness ==
    /\ resp.op = "delete_document"
    /\ resp.status = 200
    /\ \E d \in documents : files[d.file_path] # NULL

\* C7: get_dashboard_stats reports as total_documents the number of stored
\* documents, as total_analyses the number of stored analyses and as
\* completed_analyses the number of stored analyses whose status is completed.
C7_StatsCounts ==
    resp.op = "get_dashboard_stats"
    => /\ resp.total_documents = Cardinality(documents)
       /\ resp.total_documents =
             Cardinality({d \in DocIds : GetDocumentResponse(d).status = 200})
       /\ resp.total_analyses = Cardinality(analyses)
       /\ resp.total_analyses =
             Cardinality({a \in AnalysisIds : GetAnalysisResponse(a).status = 200})
       /\ resp.completed_analyses =
             Cardinality({a \in analyses : a.status = "completed"})

\* get_dashboard_stats has answered with a document, a completed analysis and
\* an analysis that failed.
C7_Witness ==
    /\ resp.op = "get_dashboard_stats"
    /\ resp.total_documents = 1
    /\ resp.total_analyses = 2
    /\ resp.completed_analyses = 1
    /\ \E a \in analyses : a.status = "failed"

C9_RisksFiltered ==
    resp.op = "get_analysis_risks"
    => /\ resp = GetAnalysisRisksResponse(resp.analysis_id, resp.category, resp.severity)
       /\ \A analysis_id \in AnalysisIds, category \in RiskCategory \cup {NULL},
             severity \in RiskSeverity \cup {NULL} :
           LET r == GetAnalysisRisksResponse(analysis_id, category, severity)
           IN  r.status = 200
               => \E a \in analyses :
                    /\ a.analysis_id = analysis_id
                    /\ r.risks \subseteq risks
                    /\ \A x \in risks :
                          x \in r.risks
                          <=> /\ x.analysis_id = a.id
                              /\ category # NULL => x.category = category
                              /\ severity # NULL => x.severity = severity
                    /\ r.total = Cardinality(r.risks)

\* get_analysis_risks has answered for category Operational and severity
\* Medium with one of the three risks of the analysis, two of which are Medium.
C9_Witness ==
    /\ resp.op = "get_analysis_risks"
    /\ resp.status = 200
    /\ resp.category = "Operational"
    /\ resp.severity = "Medium"
    /\ resp.total = 1
    /\ GetAnalysisRisksResponse(resp.analysis_id, NULL, "Medium").total = 2
    /\ GetAnalysisRisksResponse(resp.analysis_id, NULL, NULL).total = 3

\* C10: recent_analyses of get_dashboard_stats has at most five entries, all
\* of them when five or fewer analyses are stored; they are stored analyses,
\* each once, in non-increasing created_at order, and no analysis left out was
\* created after one that is shown; document_count and risk_count of an entry
\* are the numbers of association rows and of risk rows of its analysis.
C10_RecentAnalyses ==
    resp.op = "get_dashboard_stats"
    => LET recent == resp.recent_analyses
           shown == {recent[i].id : i \in 1..Len(recent)}
       IN  /\ Len(recent) <= 5
           /\ Len(recent) = Min(5, Cardinality(analyses))
           /\ \A i, j \in 1..Len(recent) :
                 i < j => recent[i].created_at >= recent[j].created_at
           /\ \A i, j \in 1..Len(recent) : i # j => recent[i].id # recent[j].id
           /\ \A i \in 1..Len(recent) :
                 /\ \E a \in analyses : /\ a.id = recent[i].id
                                        /\ a.analysis_id = recent[i].analysis_id
                                        /\ a.created_at = recent[i].created_at
                 /\ recent[i].document_count =
                       Cardinality({x \in assocs : x.analysis_id = recent[i].id})
                 /\ recent[i].risk_count =
                       Cardinality({r \in risks : r.analysis_id = recent[i].id})
           /\ \A a \in analyses :
                 a.id \notin shown
                 => \A i \in 1..Len(recent) : a.created_at <= recent[i].created_at

\* get_dashboard_stats has answered with five of six stored analyses, one of
\* them with a document and three risks, another with none.
C10_Witness ==
    /\ resp.op = "get_dashboard_stats"
    /\ Cardinality(analyses) = 6
    /\ Len(resp.recent_analyses) = 5
    /\ \E i, j \in 1..5 :
          /\ resp.recent_analyses[i].risk_count = 3
          /\ resp.recent_analyses[i].document_count = 1
          /\ resp.recent_analyses[j].risk_count = 0
          /\ resp.recent_analyses[j].document_count = 0

\* C11: DataRoom.get_document_pages is all-or-error.  For a doc_id that is not
\* in the data room it returns one error entry; when some requested page
\* number is no page_num of the document it returns one error entry that
\* names the missing numbers, and no page data; otherwise it returns the pages
\* whose page_num is requested (every page when page_nums is None), in the
\* document's page order, each with page_num, summdesc and image.  The call
\* leaves the data room as it was.
C11_AllOrError ==
    [][resp'.op = "DataRoom.get_document_pages"
       => LET r == resp'.result
              asked == resp'.page_nums
              known == resp'.doc_id \in DOMAIN data_room
              pages == data_room[resp'.doc_id].pages
              nums == {pages[i].page_num : i \in 1..Len(pages)}
              missing == Range(asked.list) \ nums
              wanted == {i \in 1..Len(pages) :
                            asked.none \/ pages[i].page_num \in Range(asked.list)}
              nth(k) == CHOOSE i \in wanted : Cardinality({j \in wanted : j <= i}) = k
          IN  /\ data_room' = data_room
              /\ ~known => Len(r) = 1 /\ DOMAIN r[1] = {"error"}
              /\ (known /\ ~asked.none /\ missing # {})
                 => /\ Len(r) = 1
                    /\ DOMAIN r[1] = {"error"}
                    /\ Range(r[1].error[2]) = missing
              /\ (known /\ (asked.none \/ missing = {}))
                 => /\ Len(r) = Cardinality(wanted)
                    /\ \A k \in 1..Len(r) :
                          /\ DOMAIN r[k] = {"page_num", "summdesc", "image"}
                          /\ r[k].page_num = pages[nth(k)].page_num
                          /\ r[k].summdesc = pages[nth(k)].summdesc
                          /\ r[k].image = pages[nth(k)].page_image]_vars

\* get_document_pages has returned an error entry for a request of one page
\* the document has and one it has not.
C11_Witness ==
    /\ resp.op = "DataRoom.get_document_pages"
    /\ resp.doc_id \in DOMAIN data_room
    /\ ~resp.page_nums.none
    /\ Len(resp.result) = 1
    /\ DOMAIN resp.result[1] = {"error"}
    /\ \E i \in 1..Len(resp.page_nums.list), p \in 1..Len(data_room[resp.doc_id].pages) :
          data_room[resp.doc_id].pages[p].page_num = resp.page_nums.list[i]

\* C12 as stated: with a page_nums query, get_document_pages answers 404 for
\* a doc_id that is not stored, 400 "Invalid page numbers format" when some
\* element of the comma-separated list is no integer, and else the stored
\* pages whose page_num is in the list (numbers that are no page are
\* ignored); total_pages is always the page_count of the document.
C12_PagesOfQuery ==
    resp.op = "get_document_pages"
    => LET found == {d \in documents : d.doc_id = resp.doc_id}
           tokens == resp.page_nums.list
           asked == {IntOf[t] : t \in Range(tokens)}
       IN  /\ found = {} => resp.status = 404
           /\ \A d \in found :
                 /\ resp.status = 200 => resp.total_pages = d.page_count
                 /\ resp.page_nums.none => resp.status = 200
                 /\ ~resp.page_nums.none =>
                       IF \E t \in Range(tokens) : t \notin DOMAIN IntOf
                       THEN /\ resp.status = 400
                            /\ resp.detail = "Invalid page numbers format"
                       ELSE /\ resp.status = 200
                            /\ resp.pages = PagesRequested(d.pages_data, asked)

\* C12 amended: as above for a page_nums string that is not empty; an empty
\* page_nums string is treated as an absent one, the answer is 200 with every
\* stored page of the document.
C12_PagesOfNonEmptyQuery ==
    resp.op = "get_document_pages"
    => LET found == {d \in documents : d.doc_id = resp.doc_id}
           tokens == resp.page_nums.list
           asked == {IntOf[t] : t \in Range(tokens)}
       IN  /\ found = {} => resp.status = 404
           /\ \A d \in found :
                 /\ resp.status = 200 => resp.total_pages = d.page_count
                 /\ (resp.page_nums.none \/ tokens = <<"">>)
                    => resp.status = 200 /\ resp.pages = d.pages_data
                 /\ ~(resp.page_nums.none \/ tokens = <<"">>) =>
                       IF \E t \in Range(tokens) : t \notin DOMAIN IntOf
                       THEN /\ resp.status = 400
                            /\ resp.detail = "Invalid page numbers format"
                       ELSE /\ resp.status = 200
                            /\ \A i \in 1..Len(resp.pages) :
                                  resp.pages[i].page_num \in asked
                            /\ resp.pages = PagesRequested(d.pages_data, asked)

\* get_document_pages has answered for " 2,9" on a document of two pages with
\* its second page only.
C12_Witness ==
    /\ resp.op = "get_document_pages"
    /\ resp.status = 200
    /\ ~resp.page_nums.none
    /\ resp.page_nums.list = <<" 2", "9">>
    /\ resp.total_pages = 2
    /\ Len(resp.pages) = 1
    /\ resp.pages[1].page_num = 2

\* C13: update_document_summary on a stored document sets its summary to the
\* given text and leaves every other field of the row, every other row and
\* the files alone, and get_document then returns the new summary; on an
\* unknown doc_id it answers 404 and changes nothing. No other step changes
\* the summary of a stored document, and get_document returns the stored row,
\* so the summary is returned until the next update.
C13_SummaryUpdated ==
    [][\A doc_id \in DocIds :
        /\ (resp'.op = "update_document_summary" /\ resp'.doc_id = doc_id) =>
              LET found == {d \in documents : d.doc_id = doc_id}
              IN  /\ files' = files
                  /\ found = {} => resp'.status = 404 /\ documents' = documents
                  /\ \A d \in found :
                        /\ resp'.status = 200
                        /\ documents' = (documents \ {d})
                               \cup {[d EXCEPT !.summary = resp'.summary]}
                        /\ GetDocumentResponse(doc_id)'.status = 200
                        /\ GetDocumentResponse(doc_id)'.document.summary = resp'.summary
        /\ (resp'.op = "get_document" /\ resp'.doc_id = doc_id /\ resp'.status = 200) =>
              /\ resp'.document \in documents
              /\ resp'.document.doc_id = doc_id
        /\ \A d \in documents, e \in documents' :
              (d.doc_id = doc_id /\ e.doc_id = doc_id /\ e.summary # d.summary) =>
                  /\ resp'.op = "update_document_summary"
                  /\ resp'.doc_id = doc_id
                  /\ resp'.summary = e.summary
      ]_vars

\* get_document has returned a summary that only update_document_summary
\* stores, while a second document keeps another summary.
C13_Witness ==
    /\ resp.op = "get_document"
    /\ resp.status = 200
    /\ resp.document.summary = "updated summary"
    /\ \E d \in documents : d.doc_id # resp.doc_id /\ d.summary # "updated summary"

\* The progress values a successful run of run_analysis_task commits.
ProgressOfRun == <<5, 10, 20, 30, 45, 55, 65, 75, 80, 85, 95, 100>>

\* How many commits of progress a run has made when it is at a position.
CommitsBefore ==
    [start |-> 0, load |-> 1, prepare |-> 2, phase1 |-> 3, phase2 |-> 4,
     phase3 |-> 5, phase4 |-> 6, phase5 |-> 7, analyze |-> 8, risks |-> 9,
     save_risks |-> 9, step85 |-> 9, report |-> 10, dashboard |-> 11]

\* C14: at every position of a run the progress values it has committed are
\* the first ones of 5, 10, 20, 30, 45, 55, 65, 75, 80, 85, 95, 100: eight of
\* them, the five phases included, when analyze_documents is about to be
\* called, whatever the documents are; and a run that marks its analysis
\* completed has committed the first eleven and commits 100 with it, whatever
\* the analysis returned.
C14_FixedProgress ==
    [][/\ \A i \in 1..Len(tasks') :
             tasks'[i].committed = SubSeq(ProgressOfRun, 1, CommitsBefore[tasks'[i].pc])
       /\ \A i \in 1..Len(tasks) :
             (/\ tasks[i].pc = "dashboard"
              /\ tasks' = RemoveAt(tasks, i)
              /\ \E a \in analyses' : /\ a.id = tasks[i].row
                                      /\ a.status = "completed"
                                      /\ a \notin analyses)
             => \A a \in analyses' :
                   (a.id = tasks[i].row /\ a \notin analyses)
                   => Append(tasks[i].committed, a.progress) = ProgressOfRun
       /\ \A a \in analyses' :
             (a.status = "completed" /\ a \notin analyses)
             => \E i \in 1..Len(tasks) : /\ tasks[i].pc = "dashboard"
                                         /\ tasks[i].row = a.id
                                         /\ tasks' = RemoveAt(tasks, i)
      ]_vars

\* A run about to call analyze_documents for one document has committed the
\* phases, and an analysis of no risk has been completed.
C14_Witness ==
    /\ \E a \in analyses : /\ a.status = "completed"
                           /\ a.progress = 100
                           /\ a.result_data[1].total_risks = 0
    /\ \E i \in 1..Len(tasks) :
          /\ tasks[i].pc = "analyze"
          /\ Len(tasks[i].docs_data) = 1
          /\ tasks[i].committed = <<5, 10, 20, 30, 45, 55, 65, 75>>

\* C15: when a document cannot be processed during build_data_room_index, the
\* step of run_indexing_job that raises leaves the job failed with an
\* error_message and current_step "Failed", ends the coroutine before all
\* documents were processed (no further document is processed) and changes
\* no document record; a step of run_indexing_job changes document records
\* only when it completes the job.
C15_FailedJobChangesNothing ==
    [][resp'.op = "run_indexing_job" =>
        /\ (resp'.raised /\ resp'.position > 0) =>
              /\ documents' = documents
              /\ \E i \in 1..Len(tasks) :
                    /\ tasks[i].job_id = resp'.job_id
                    /\ Len(tasks[i].indexed_documents) < Len(tasks[i].documents)
                    /\ tasks' = RemoveAt(tasks, i)
              /\ \E j \in indexing_jobs' : j.job_id = resp'.job_id
              /\ \A j \in indexing_jobs' :
                    j.job_id = resp'.job_id =>
                        /\ j.status = "failed"
                        /\ j.error_message # NULL
                        /\ j.current_step = "Failed"
        /\ documents' # documents =>
              /\ ~resp'.raised
              /\ \A j \in indexing_jobs' :
                    j.job_id = resp'.job_id => j.status = "completed"
      ]_vars

\* The second document of a job could not be processed after the first one
\* was: the job is failed and the stored documents are as uploaded.
C15_Witness ==
    /\ resp.op = "run_indexing_job"
    /\ resp.raised
    /\ resp.position = 2
    /\ tasks = <<>>
    /\ \E j \in indexing_jobs : j.job_id = resp.job_id /\ j.status = "failed"
    /\ Cardinality(documents) = 2
    /\ \A d \in documents : d.summary = "auto summary"

\* The doc_id values of a list of document dicts or of results.
DocIdsOf(list) == [k \in 1..Len(list) |-> list[k].doc_id]

\* The sum of the page_count of the first n entries of a list.
RECURSIVE PagesOfFirst(_, _)
PagesOfFirst(list, n) ==
    IF n = 0 THEN 0 ELSE PagesOfFirst(list, n - 1) + list[n].page_count

\* C16: build_data_room_index takes the documents one after another in input
\* order: the step that starts processing the document at a position finds
\* the results of all the documents before it, in input order, and of no
\* other; the index of a completed job lists the input documents in input
\* order, its total_documents is their number and its total_pages the sum of
\* their page_count.
C16_InputOrder ==
    [][resp'.op = "run_indexing_job" /\ ~resp'.raised =>
        /\ resp'.position > 0 =>
              \E i \in 1..Len(tasks) :
                  LET t == tasks'[i]
                  IN  /\ Len(tasks') = Len(tasks)
                      /\ t.job_id = resp'.job_id
                      /\ t.documents = tasks[i].documents
                      /\ t.pc = "summarize"
                      /\ resp'.position <= Len(t.documents)
                      /\ t.processing = <<t.documents[resp'.position]>>
                      /\ Len(t.indexed_documents) = resp'.position - 1
                      /\ DocIdsOf(t.indexed_documents)
                            = SubSeq(DocIdsOf(t.documents), 1, resp'.position - 1)
        /\ resp'.position = 0 =>
              \E i \in 1..Len(tasks) :
                  /\ tasks' = RemoveAt(tasks, i)
                  /\ tasks[i].job_id = resp'.job_id
                  /\ \E j \in indexing_jobs' : j.job_id = resp'.job_id
                  /\ \A j \in indexing_jobs' :
                        j.job_id = resp'.job_id =>
                            LET result == j.result[1]
                                n == Len(tasks[i].documents)
                            IN  /\ j.status = "completed"
                                /\ DocIdsOf(result.documents) = DocIdsOf(tasks[i].documents)
                                /\ result.total_documents = n
                                /\ j.processed_documents = n
                                /\ result.total_pages = PagesOfFirst(result.documents, n)
      ]_vars

\* A job for two different documents, the second one first, has completed
\* with an index of three pages.
C16_Witness ==
    /\ resp.op = "run_indexing_job"
    /\ ~resp.raised
    /\ resp.position = 0
    /\ \E j \in indexing_jobs :
          /\ j.job_id = resp.job_id
          /\ j.status = "completed"
          /\ DocIdsOf(j.result[1].documents) = <<DocId(2), DocId(1)>>
          /\ j.result[1].total_pages = 3

\* C17: the output of SystemConfig.to_dict has "***" as its api_key, and it
\* is the output for every configuration that differs from the given one in
\* api.api_key at most.
C17_KeyNotExposed ==
    resp.op = "SystemConfig.to_dict"
    => /\ resp.result.api.api_key = "***"
       /\ \A api_key \in ApiKeys :
             ToDict([resp.config EXCEPT !.api.api_key = api_key]) = resp.result

\* to_dict was called on a configuration with a key.
C17_Witness ==
    /\ resp.op = "SystemConfig.to_dict"
    /\ resp.config.api.api_key = "sk-ant-one"
    /\ resp.result.api.model = "claude-haiku"

\* C18: after delete_analysis has returned no risk row and no association
\* row refers to the deleted analysis: every such row refers to an analysis
\* that is stored (rows are only made for a stored analysis, so a row whose
\* analysis is not stored is a row of a deleted one).
C18_NoRowOfDeletedAnalysis ==
    /\ \A r \in risks : \E a \in analyses : a.id = r.analysis_id
    /\ \A x \in assocs : \E a \in analyses : a.id = x.analysis_id

\* C19: analyze_documents returns what _generate_mock_analysis returns for
\* the documents when no API key is configured (and then the API is not
\* called), when the call of the API raises, and when the response text holds
\* no JSON object that can be parsed: neither the text nor the part of it
\* between its first "{" and its last "}" parses to an object.
C19_FallsBackToMock ==
    resp.op = "analyze_documents"
    => LET mock == GenerateMockAnalysis(resp.documents)
           is_mock == /\ resp.result.value.type = "object"
                      /\ resp.result.value.value = mock
           has_key == resp.api_key \notin {NULL, ""}
           text == resp.outcome.response
           object_in_text ==
               \/ text.loads # <<>> /\ text.loads[1].type = "object"
               \/ /\ text.braces # <<>>
                  /\ text.braces[1] # <<>>
                  /\ text.braces[1][1].type = "object"
       IN  /\ ~has_key => ~resp.result.api_called /\ is_mock
           /\ (has_key /\ resp.outcome.raises) => is_mock
           /\ (has_key /\ ~resp.outcome.raises /\ ~object_in_text) => is_mock

\* The k-th risk id of a result: "RISK_" and the three digits of k.
NumberedRiskId(k) == <<"RISK_", <<k \div 100, (k \div 10) % 10, k % 10>>>>

\* C20: the mock analysis of n documents has 3n risks; the risks 3i-2, 3i-1
\* and 3i are the Contractual/High, the Regulatory/Medium and the
\* Operational/Medium risk of the i-th document and cite its doc_id; the k-th
\* risk has the id RISK_ followed by k in three digits, so the ids are
\* pairwise distinct; the summary states n documents and 3n risks.
C20_MockAnalysis ==
    resp.op = "_generate_mock_analysis"
    => LET n == Len(resp.documents)
           result == resp.result.risks
       IN  /\ Len(result) = 3 * n
           /\ \A i \in 1..n :
                 /\ result[3 * i - 2].category = "Contractual"
                 /\ result[3 * i - 2].severity = "High"
                 /\ result[3 * i - 1].category = "Regulatory"
                 /\ result[3 * i - 1].severity = "Medium"
                 /\ result[3 * i].category = "Operational"
                 /\ result[3 * i].severity = "Medium"
                 /\ \A k \in (3 * i - 2)..(3 * i) : result[k].evidence = resp.documents[i]
           /\ \A k \in 1..Len(result) : result[k].risk_id = NumberedRiskId(k)
           /\ \A k, l \in 1..Len(result) : k # l => result[k].risk_id # result[l].risk_id
           /\ resp.result.analysis_summary = <<n, "documents", 3 * n, "risks">>

\* The mock analysis of four documents, the first and the last different, was
\* made: its last risk is RISK_012.
C20_Witness ==
    /\ resp.op = "_generate_mock_analysis"
    /\ Len(resp.documents) = MaxServiceDocs
    /\ resp.documents[1] # resp.documents[MaxServiceDocs]
    /\ resp.result.risks[12].risk_id = <<"RISK_", <<0, 1, 2>>>>

\* C21: every risk row run_analysis_task stores has a category, a severity
\* and a likelihood of the enumerations, the value of the analysis result
\* when it is one of them and Operational, Medium and Possible when it is
\* missing or another string, and belongs to the analysis the task runs for:
\* the stored analysis with the row's analysis_id has the task's analysis_id.
C21_RiskRowsStructured ==
    [][\A r \in risks' \ risks :
          /\ r.category \in RiskCategory
          /\ r.severity \in RiskSeverity
          /\ r.likelihood \in RiskLikelihood
          /\ \E i \in 1..Len(tasks) :
                LET t == tasks[i]
                    k == r.id - NextRowId(risks) + 1
                IN  /\ t.pc = "save_risks"
                    /\ k \in 1..Len(t.risks_data)
                    /\ r.category = IF t.risks_data[k].category \in RiskCategory
                                    THEN t.risks_data[k].category ELSE "Operational"
                    /\ r.severity = IF t.risks_data[k].severity \in RiskSeverity
                                    THEN t.risks_data[k].severity ELSE "Medium"
                    /\ r.likelihood = IF t.risks_data[k].likelihood \in RiskLikelihood
                                      THEN t.risks_data[k].likelihood ELSE "Possible"
                    /\ \E a \in analyses' : /\ a.id = r.analysis_id
                                            /\ a.analysis_id = t.analysis_id
      ]_vars

\* The changes of status an analysis can make.
StatusChanges ==
    {<<"pending", "running">>, <<"running", "completed">>, <<"running", "failed">>}

\* C22: in every step, an analysis that stays stored keeps its status or
\* changes it from pending to running, from running to completed or from
\* running to failed; so completed and failed are final and no analysis
\* returns to pending.
C22_StatusChanges ==
    [][\A a \in analyses, b \in analyses' :
          (a.id = b.id /\ a.analysis_id = b.analysis_id /\ a.status # b.status)
          => <<a.status, b.status>> \in StatusChanges
      ]_vars

\* C23: every stored analysis has a progress from 0 to 100, is completed
\* exactly when its progress is 100, and when completed has completed_at,
\* result_data, report_path and dashboard_path set and no error_message; and
\* in no step does the progress of an analysis that stays stored decrease.
C23_ProgressAndCompletion ==
    [][/\ \A a \in analyses' :
             /\ a.progress \in 0..100
             /\ a.status = "completed" <=> a.progress = 100
             /\ a.status = "completed" =>
                   /\ a.completed_at # NULL
                   /\ a.result_data # <<>>
                   /\ a.report_path # <<>>
                   /\ a.dashboard_path # <<>>
                   /\ a.error_message = NULL
       /\ \A a \in analyses, b \in analyses' :
             (a.id = b.id /\ a.analysis_id = b.analysis_id) => a.progress <= b.progress
      ]_vars

\* The analysis of an id is stored and pending or running.
Unfinished(analysis_id) ==
    \E a \in analyses : a.analysis_id = analysis_id /\ a.status \in {"pending", "running"}

C25_CompletedHasOutputs ==
    /\ \A a \in analyses :
          a.status = "completed" =>
             /\ ReportFile(a.analysis_id) \in outputs
             /\ DashboardFile(a.analysis_id) \in outputs
             /\ Cardinality({r \in risks : r.analysis_id = a.id})
                   >= a.result_data[1].total_risks
    /\ resp.op \in {"download_report", "download_dashboard"} =>
          ~(resp.status = 404 /\ resp.detail = "File not found")

\* The risk rows stored for the analysis row a.
RisksOf(a) == {r \in risks : r.analysis_id = a.id}

\* C26: the result_data of a completed analysis agrees with its stored risk
\* rows: total_risks is their number, by_severity[s] the number of them with
\* severity s and by_category[c] the number of them with category c.
C26_ResultDataAgrees ==
    \A a \in analyses :
        a.status = "completed" =>
            LET result_data == a.result_data[1]
            IN  /\ result_data.total_risks = Cardinality(RisksOf(a))
                /\ \A s \in RiskSeverity :
                      result_data.by_severity[s]
                         = Cardinality({r \in RisksOf(a) : r.severity = s})
                /\ \A c \in RiskCategory :
                      result_data.by_category[c]
                         = Cardinality({r \in RisksOf(a) : r.category = c})

\* C27: create_analysis answers 404 only when one of the requested ids names
\* no stored document; a request whose ids all name stored documents, the same
\* document more than once included, is not refused.
C27_NotFoundOnlyIfMissing ==
    (resp.op = "create_analysis" /\ resp.status = 404) =>
        \E i \in 1..Len(resp.document_ids) :
            DocumentsByDocId(resp.document_ids[i]) = {}

\* C28: an upload, answered with success or with an error, leaves the record
\* and the stored file of every document stored before it as they were.
C28_UploadKeepsStored ==
    [][resp'.op = "upload_document" =>
          \A d \in documents :
              /\ d \in documents'
              /\ files'[d.file_path] = files[d.file_path]
      ]_vars

====
